---------------------------- MODULE Spec2Model ----------------------------
(***************************************************************************)
(* Task lifecycle, recurrence dates and occurrence projection of the       *)
(* look-at-me new-tab extension (hooks/useTasks.ts, utils/recurrence.ts,   *)
(* utils/chrome-apis.ts, utils/validation.ts, utils/dateUtils.ts,          *)
(* components/TaskList.tsx).                                               *)
(*                                                                         *)
(* Dates.  A JavaScript Date that sits at local midnight is modelled by    *)
(* its local calendar day, counted in days from 2024-01-01 (day 0).  A     *)
(* stored date string is what Date.toISOString() writes: the UTC instant,  *)
(* modelled in hours from 2024-01-01T00:00Z.  Reading a stored string back *)
(* (stringToDate, then getFullYear/getMonth/getDate) goes through the      *)
(* local time zone again.                                                  *)
(***************************************************************************)
EXTENDS Integers, Sequences, FiniteSets, TLC

VARIABLES
    store,        \* chrome.storage.local["tasks"]: the persisted Task[]
    today,        \* the platform clock, as the local calendar day
    nextId,       \* source of fresh ids (crypto.randomUUID) and of createdAt order
    result,       \* the value the last hook operation resolved to
    tasks,        \* useTasks state.tasks (today's tasks)
    futureTasks,  \* useTasks state.futureTasks
    currentPage,  \* useTasks state.currentPage
    totalPages,   \* useTasks state.totalPages
    rolls,        \* how many times a recurring task was rolled forward
    rcIn,         \* recurrence calculator: the last (anchor, schedule) given
    rcOut,        \* recurrence calculator: what it returned for rcIn
    currentTask,  \* useCurrentTask state.currentTask: the id of the task, if any
    calls         \* hook calls under way at the same time, each where it stands

vars == <<store, today, nextId, result, tasks, futureTasks, currentPage,
          totalPages, rolls, rcIn, rcOut, currentTask, calls>>
view == <<tasks, futureTasks, currentPage, totalPages>>
calc == <<rcIn, rcOut>>

\* An optional value (undefined, null or a missing key against a value) is a
\* sequence of at most one element.
NoVal == <<>>
Some(v) == <<v>>
Val(o) == o[1]
IsSet(o) == o # <<>>

-----------------------------------------------------------------------------
(* Program constants                                                       *)

MAX_TASKS_PER_DAY == 12
VISIBLE_TASKS == 8
MIN_TASK_NAME_LENGTH == 1
MAX_TASK_NAME_LENGTH == 50
MAX_TASK_DESCRIPTION_LENGTH == 200
MIN_WEBSITES_COUNT == 1
MAX_WEBSITES_COUNT == 10
INVALID_PROTOCOLS == {"chrome://", "chrome-extension://", "file://", "data:",
                      "javascript:", "about:"}
ALLOWED_PROTOCOLS == {"http://", "https://"}

PENDING == "pending"
IN_PROGRESS == "in-progress"
COMPLETED == "completed"
TaskState == {PENDING, IN_PROGRESS, COMPLETED}

NONE == "none"
DAILY == "daily"
WEEKLY == "weekly"
MONTHLY == "monthly"
TaskSchedule == {NONE, DAILY, WEEKLY, MONTHLY}
Recurring == {DAILY, WEEKLY, MONTHLY}

-----------------------------------------------------------------------------
(* Bounds of the model                                                     *)

\* stored tasks in the lifecycle specification
MaxTasks == 1
\* tasks created in a run of the lifecycle specification
MaxCreated == 1
\* days the clock may advance in the lifecycle specification
MaxAdvance == 1
\* recurring tasks are rolled forward at most this many times in a run
MaxRolls == 1
\* pages goToPage is asked for run from -1 to this
MaxPageAsked == 4
\* stored tasks in the task-limit specification (one more than the limit needs)
MaxLimitTasks == 13
\* stored tasks of one kind in the projection specification (three pages)
MaxProjTasks == 17
\* stored tasks of mixed kinds in the projection specification
MaxMixedTasks == 2
\* today's tasks in the page specification: any states up to MaxFewTasks,
\* and MaxPageTasks of them (two pages)
MaxFewTasks == 3
MaxPageTasks == 9
\* recurrence calculator: the clock runs over this many days from 2024-12-28,
\* the anchors over those and over this many days from 2024-01-28
CalcSpan == 95
LeapSpan == 34
\* an anchor lies at most this many days before the clock
MaxLag == 70

-----------------------------------------------------------------------------
(* Calendar: what the JavaScript Date arithmetic computes                  *)

IsLeap(y) == (y % 4 = 0 /\ y % 100 # 0) \/ y % 400 = 0

\* new Date(y, m, 0).getDate(): the number of days of month m (1..12) of year y
DaysInMonth(y, m) ==
    IF m = 2 THEN (IF IsLeap(y) THEN 29 ELSE 28)
    ELSE IF m \in {4, 6, 9, 11} THEN 30 ELSE 31

RECURSIVE DaysBeforeMonth(_, _)
DaysBeforeMonth(y, m) ==
    IF m <= 1 THEN 0 ELSE DaysBeforeMonth(y, m - 1) + DaysInMonth(y, m - 1)

RECURSIVE DaysBeforeYear(_)
DaysBeforeYear(y) ==
    IF y <= 2024 THEN 0
    ELSE DaysBeforeYear(y - 1) + (IF IsLeap(y - 1) THEN 366 ELSE 365)

\* new Date(y, m - 1, d, 0, 0, 0, 0) for a day d that exists in the month
DayNum(y, m, d) == DaysBeforeYear(y) + DaysBeforeMonth(y, m) + (d - 1)

RECURSIVE YearOf(_, _)
YearOf(n, y) ==
    IF n < DaysBeforeYear(y + 1) THEN y ELSE YearOf(n, y + 1)

RECURSIVE MonthOf(_, _, _)
MonthOf(n, y, m) ==
    IF m = 12 \/ n < DaysBeforeYear(y) + DaysBeforeMonth(y, m + 1)
    THEN m ELSE MonthOf(n, y, m + 1)

\* getFullYear / getMonth() + 1 / getDate of the local day n (n >= 0)
DateOf(n, y, m) == [year |-> y, month |-> m, day |-> n - DayNum(y, m, 1) + 1]
DateInYear(n, y) == DateOf(n, y, MonthOf(n, y, 1))
YMD(n) == DateInYear(n, YearOf(n, 2024))

-----------------------------------------------------------------------------
(* Stored date strings                                                     *)

\* the local zone's offset from UTC in hours (Date works in the browser's zone)
TZOffsetHours == 9

\* date.toISOString() of the Date at local midnight of day n
toISOString(n) == n * 24 - TZOffsetHours

\* dateUtils.stringToDate followed by getFullYear/getMonth/getDate (or by
\* setHours(0, 0, 0, 0)): the local day of an optional stored string, null
\* for a missing one
stringToDate(s) ==
    IF ~IsSet(s) THEN NoVal ELSE Some((Val(s) + TZOffsetHours) \div 24)

-----------------------------------------------------------------------------
(* utils/recurrence.ts                                                     *)

\* next.setDate(day) with no clamp: Date carries a day the month does not
\* have over into the month after
SetDateUnclamped(y2, m2, day, daysInMonth) == DayNum(y2, m2, day)

\* const daysInMonth = new Date(y, m + 1, 0).getDate();
\* next.setDate(Math.min(day, daysInMonth)) in month m2 of year y2
SetDateClamped(y2, m2, day, daysInMonth) ==
    DayNum(y2, m2, IF day < daysInMonth THEN day ELSE daysInMonth)

\* case 'monthly': const day = next.getDate(); next.setDate(1);
\* next.setMonth(next.getMonth() + 1); then the clamped setDate
StepMonth(cur) ==
    IF cur.month = 12
    THEN SetDateClamped(cur.year + 1, 1, cur.day, DaysInMonth(cur.year + 1, 1))
    ELSE SetDateClamped(cur.year, cur.month + 1, cur.day,
                        DaysInMonth(cur.year, cur.month + 1))

\* One pass of the switch on the schedule: the Date `next` after the case body
\* and the trailing setHours(0, 0, 0, 0).
StepDate(n, schedule) ==
    CASE schedule = DAILY  -> n + 1
      [] schedule = WEEKLY -> n + 7
      [] schedule = MONTHLY -> StepMonth(YMD(n))

\* one pass in place of the loop: a single step when the date is not after
\* today
NextLoopOnce(next, schedule, now) ==
    IF next <= now THEN StepDate(next, schedule) ELSE next

\* the loop with the test next < today: it stops on today itself
RECURSIVE NextLoopUntilToday(_, _, _)
NextLoopUntilToday(next, schedule, now) ==
    IF next < now THEN NextLoopUntilToday(StepDate(next, schedule), schedule, now)
    ELSE next

\* while (next <= today) { switch ... }
RECURSIVE NextLoop(_, _, _)
NextLoop(next, schedule, now) ==
    IF next <= now THEN NextLoop(StepDate(next, schedule), schedule, now)
    ELSE next

\* getNextOccurrenceDate(startDateString, schedule), with the clock it reads
\* (new Date()) as the third argument.  Stored strings are ISO instants, so
\* the non-YMD branch resolves the base date.
getNextOccurrenceDate(startDateString, schedule, now) ==
    IF ~IsSet(startDateString) \/ schedule = NONE THEN NoVal
    ELSE LET base == stringToDate(startDateString)
         IN  IF ~IsSet(base) \/ schedule \notin Recurring THEN NoVal
             ELSE Some(toISOString(NextLoop(Val(base), schedule, now)))

\* getNextAfterBaseDate making no step: the base date itself
getBaseDate(startDateString, schedule) ==
    IF ~IsSet(startDateString) \/ schedule = NONE THEN NoVal
    ELSE LET base == stringToDate(startDateString)
         IN  IF ~IsSet(base) \/ schedule \notin Recurring THEN NoVal
             ELSE Some(toISOString(Val(base)))

\* getNextAfterBaseDate(startDateString, schedule): one step, no clock
getNextAfterBaseDate(startDateString, schedule) ==
    IF ~IsSet(startDateString) \/ schedule = NONE THEN NoVal
    ELSE LET base == stringToDate(startDateString)
         IN  IF ~IsSet(base) \/ schedule \notin Recurring THEN NoVal
             ELSE Some(toISOString(StepDate(Val(base), schedule)))

-----------------------------------------------------------------------------
(* utils/validation.ts                                                     *)
(* A string is the sequence of its characters; the strings given here      *)
(* carry no surrounding white space, so trim() returns them as they are.   *)
(* A URL is its protocol prefix ("" when it has none) and the labels of    *)
(* its host name.                                                          *)

NumericLabels == {"127", "0", "1"}

isValidUrl(url) ==
    /\ ~(url.protocol = "" /\ url.host = <<>>)            \* empty string
    /\ url.protocol \notin INVALID_PROTOCOLS
    /\ url.host # <<>>                                    \* new URL() throws / no hostname
    /\ Len(url.host) >= 2                                 \* hostname.includes('.')
    /\ url.host # <<"127", "0", "0", "1">>
    /\ ~(Len(url.host) = 4 /\ \A k \in 1..4 : url.host[k] \in NumericLabels)

validateTaskName(name) ==
    IF name = <<>> THEN <<"name: required">>
    ELSE (IF Len(name) < MIN_TASK_NAME_LENGTH THEN <<"name: too short">> ELSE <<>>)
         \o (IF Len(name) > MAX_TASK_NAME_LENGTH THEN <<"name: too long">> ELSE <<>>)

validateTaskDescription(description) ==
    IF description # <<>> /\ Len(description) > MAX_TASK_DESCRIPTION_LENGTH
    THEN <<"description: too long">> ELSE <<>>

validateTaskWebsites(websites) ==
    (IF Len(websites) < MIN_WEBSITES_COUNT THEN <<"websites: too few">> ELSE <<>>)
    \o (IF Len(websites) > MAX_WEBSITES_COUNT THEN <<"websites: too many">> ELSE <<>>)
    \o (IF \E k \in 1..Len(websites) : ~isValidUrl(websites[k])
        THEN <<"websites: invalid URL">> ELSE <<>>)

\* startDate is an optional Date (a local day); now is the clock's day
validateTaskStartDate(startDate, schedule, now) ==
    IF schedule # NONE /\ ~IsSet(startDate) THEN <<"startDate: required">>
    ELSE IF IsSet(startDate) /\ Val(startDate) < now
         THEN <<"startDate: in the past">> ELSE <<>>

\* validateTask(taskData): the list of errors; isValid is errors.length === 0.
\* taskData.description, .schedule and .startDate are optional.  A recurring
\* schedule without a start date validates new Date() in its place.
validateTask(taskData, now) ==
    validateTaskName(taskData.name)
    \o (IF IsSet(taskData.description) /\ Val(taskData.description) # <<>>
        THEN validateTaskDescription(Val(taskData.description)) ELSE <<>>)
    \o validateTaskWebsites(taskData.websites)
    \o (IF IsSet(taskData.startDate)
        THEN validateTaskStartDate(taskData.startDate,
                 IF IsSet(taskData.schedule) THEN Val(taskData.schedule) ELSE NONE, now)
        ELSE IF IsSet(taskData.schedule) /\ Val(taskData.schedule) # NONE
             THEN validateTaskStartDate(Some(now), Val(taskData.schedule), now)
             ELSE <<>>)

-----------------------------------------------------------------------------
(* utils/chrome-apis.ts: taskStorage                                       *)
(* A Task is a record; an optional field that is missing holds NoVal.      *)
(* Ids are [uuid, suffix]: a persisted task has the empty suffix.  The     *)
(* time stamps updatedAt and completedAt are kept to the day of the clock; *)
(* createdAt is the rank of the creation among all creations.              *)

TaskFields == {"name", "description", "websites", "state", "schedule",
               "startDate", "completedAt", "updatedAt", "order",
               "nextOccurrenceAnchor"}

PersistedId(n) == [uuid |-> n, suffix |-> ""]

\* findIndex comparing the ids up to the first "_" only
FindIndexOfParent(all, taskId) ==
    IF \E k \in 1..Len(all) : all[k].id.uuid = taskId.uuid
    THEN CHOOSE k \in 1..Len(all) :
            all[k].id.uuid = taskId.uuid
            /\ \A j \in 1..(k - 1) : all[j].id.uuid # taskId.uuid
    ELSE 0

\* tasks.findIndex(task => task.id === taskId), 0 for -1
FindIndex(all, taskId) ==
    IF \E k \in 1..Len(all) : all[k].id = taskId
    THEN CHOOSE k \in 1..Len(all) :
            all[k].id = taskId /\ \A j \in 1..(k - 1) : all[j].id # taskId
    ELSE 0

Pick(task, updates, f) == IF f \in DOMAIN updates THEN updates[f] ELSE task[f]

\* { ...tasks[taskIndex], ...updates, updatedAt: new Date().toISOString() }
MergeTask(task, updates, now) ==
    [id                   |-> task.id,
     createdAt            |-> task.createdAt,
     name                 |-> Pick(task, updates, "name"),
     description          |-> Pick(task, updates, "description"),
     websites             |-> Pick(task, updates, "websites"),
     state                |-> Pick(task, updates, "state"),
     schedule             |-> Pick(task, updates, "schedule"),
     startDate            |-> Pick(task, updates, "startDate"),
     completedAt          |-> Pick(task, updates, "completedAt"),
     order                |-> Pick(task, updates, "order"),
     nextOccurrenceAnchor |-> Pick(task, updates, "nextOccurrenceAnchor"),
     updatedAt            |-> now]

\* taskStorage.addTask: the array to save
StorageAdd(all, task) == Append(all, task)

\* taskStorage.updateTask: the array to save (taskId is in all)
StorageUpdate(all, taskId, updates, now) ==
    LET k == FindIndex(all, taskId)
    IN  [all EXCEPT ![k] = MergeTask(all[k], updates, now)]

\* a delete that drops the last record whatever the id
StorageDeleteLast(all, taskId) == SubSeq(all, 1, Len(all) - 1)

\* taskStorage.deleteTask: the array to save
RECURSIVE StorageDelete(_, _)
StorageDelete(all, taskId) ==
    IF all = <<>> THEN <<>>
    ELSE IF Head(all).id = taskId THEN StorageDelete(Tail(all), taskId)
         ELSE <<Head(all)>> \o StorageDelete(Tail(all), taskId)

-----------------------------------------------------------------------------
(* utils/dateUtils.ts, utils/recurrence.ts: what loadTasks uses             *)

\* isToday(dateString): same local calendar day as the clock
isToday(dateString, now) ==
    LET date == stringToDate(dateString)
    IN  IsSet(date) /\ Val(date) = now

\* isFutureDate comparing with >=: today counts as future
isFutureDateOrToday(dateString, now) ==
    LET date == stringToDate(dateString)
    IN  IsSet(date) /\ Val(date) >= now

\* isFutureDate(dateString): local midnight after today's
isFutureDate(dateString, now) ==
    LET date == stringToDate(dateString)
    IN  IsSet(date) /\ Val(date) > now

\* buildNextOccurrenceTask(task): an optional Task, never persisted
buildNextOccurrenceTask(task, now) ==
    IF ~IsSet(task.startDate) \/ task.schedule = NONE THEN NoVal
    ELSE LET nextIso == getNextOccurrenceDate(task.startDate, task.schedule, now)
         IN  IF ~IsSet(nextIso) THEN NoVal
             ELSE Some([task EXCEPT
                          !.id = [uuid |-> task.id.uuid, suffix |-> "_next_occurrence"],
                          !.startDate = nextIso,
                          !.state = PENDING,
                          !.updatedAt = now])

\* the forEach without the isToday test: an occurrence for every recurring
\* task that has a start date
RECURSIVE RecurringOccurrencesAnyDay(_, _)
RecurringOccurrencesAnyDay(active, now) ==
    IF active = <<>> THEN <<>>
    ELSE LET task == Head(active)
             next == IF task.schedule # NONE /\ IsSet(task.startDate)
                     THEN buildNextOccurrenceTask(task, now) ELSE NoVal
         IN  next \o RecurringOccurrencesAnyDay(Tail(active), now)

\* activeTasks.forEach(...): the occurrences pushed, in the order of the tasks
RECURSIVE RecurringOccurrences(_, _)
RecurringOccurrences(active, now) ==
    IF active = <<>> THEN <<>>
    ELSE LET task == Head(active)
             next == IF task.schedule # NONE /\ IsSet(task.startDate)
                        /\ isToday(task.startDate, now)
                     THEN buildNextOccurrenceTask(task, now) ELSE NoVal
         IN  next \o RecurringOccurrences(Tail(active), now)

\* where a stable sort puts x in the sorted sequence: after every element
\* that is not later than it
RECURSIVE InsertByDate(_, _)
InsertByDate(sorted, x) ==
    IF sorted = <<>> THEN <<x>>
    ELSE IF Val(Head(sorted).startDate) <= Val(x.startDate)
         THEN <<Head(sorted)>> \o InsertByDate(Tail(sorted), x)
         ELSE <<x>> \o sorted

\* the merged list left in the order it was built in
MergedOrder(list) == list

\* [...].sort((a, b) => dateA.getTime() - dateB.getTime()); every element here
\* has a startDate
RECURSIVE SortByDate(_)
SortByDate(list) ==
    IF list = <<>> THEN <<>>
    ELSE InsertByDate(SortByDate(SubSeq(list, 1, Len(list) - 1)), list[Len(list)])

Max(a, b) == IF a >= b THEN a ELSE b
Min(a, b) == IF a <= b THEN a ELSE b
\* Math.ceil(n / d) for n >= 0, d > 0
Ceil(n, d) == (n + d - 1) \div d

\* loadTasks: the state it sets, from the stored tasks, the clock and
\* state.currentPage
loadTasks(all, now, page) ==
    LET activeTasks == SelectSeq(all, LAMBDA task : task.state # COMPLETED)
        todaysTasks == SelectSeq(activeTasks,
                         LAMBDA task : ~IsSet(task.startDate)
                                       \/ isToday(task.startDate, now))
        future      == SelectSeq(activeTasks,
                         LAMBDA task : IsSet(task.startDate)
                                       /\ isFutureDate(task.startDate, now))
        allFutureTasks == SortByDate(future \o RecurringOccurrences(activeTasks, now))
        pages == Max(1, Ceil(Len(todaysTasks), VISIBLE_TASKS))
    IN  [tasks |-> todaysTasks, futureTasks |-> allFutureTasks,
         currentPage |-> Min(page, pages), totalPages |-> pages]

-----------------------------------------------------------------------------
(* hooks/useTasks.ts: the operations, as functions of what they read       *)
(* (the stored tasks, the clock, what the storage write and the browser's  *)
(* tab calls answer) to what they leave in the store and resolve to.       *)

Ok(all) == [store |-> all, success |-> TRUE, error |-> <<>>]
Failure(all, message) == [store |-> all, success |-> FALSE, error |-> <<message>>]

ErrNotFound      == "Task not found"
ErrLimit         == "Maximum 12 tasks per day allowed"
ErrSave          == "Failed to save task"
ErrEditState     == "Cannot edit tasks that are in progress or completed"
ErrUpdate        == "Failed to update task"
ErrDeleteState   == "Cannot delete tasks that are in progress"
ErrDelete        == "Failed to delete task"
ErrNotPending    == "Task is not in pending state"
ErrTabs          == "Failed to create tabs"
ErrStateWrite    == "Failed to update task state"
ErrNotInProgress == "Task is not in progress"

PendingCount(all) == Len(SelectSeq(all, LAMBDA task : task.state = PENDING))

\* createTask with the limit tested by > in place of >=
createTaskPastLimit(all, taskData, saveOk, now, fresh) ==
    LET errors == validateTask([name |-> taskData.name,
                                description |-> taskData.description,
                                websites |-> taskData.websites,
                                schedule |-> Some(taskData.schedule),
                                startDate |-> taskData.startDate], now)
        newTask == [id |-> PersistedId(fresh),
                    name |-> taskData.name,
                    description |-> IF IsSet(taskData.description)
                                       /\ Val(taskData.description) # <<>>
                                    THEN taskData.description ELSE NoVal,
                    websites |-> taskData.websites,
                    state |-> PENDING,
                    schedule |-> taskData.schedule,
                    startDate |-> IF IsSet(taskData.startDate)
                                  THEN Some(toISOString(Val(taskData.startDate)))
                                  ELSE NoVal,
                    createdAt |-> fresh,
                    updatedAt |-> now,
                    completedAt |-> NoVal,
                    nextOccurrenceAnchor |-> NoVal,
                    order |-> Len(all)]
    IN  IF errors # <<>> THEN [store |-> all, success |-> FALSE, error |-> errors]
        ELSE IF PendingCount(all) > MAX_TASKS_PER_DAY THEN Failure(all, ErrLimit)
        ELSE IF ~saveOk THEN Failure(all, ErrSave)
        ELSE Ok(StorageAdd(all, newTask))

\* createTask(taskData); fresh is the uuid and creation rank of the new task
createTask(all, taskData, saveOk, now, fresh) ==
    LET errors == validateTask([name |-> taskData.name,
                                description |-> taskData.description,
                                websites |-> taskData.websites,
                                schedule |-> Some(taskData.schedule),
                                startDate |-> taskData.startDate], now)
        newTask == [id |-> PersistedId(fresh),
                    name |-> taskData.name,
                    description |-> IF IsSet(taskData.description)
                                       /\ Val(taskData.description) # <<>>
                                    THEN taskData.description ELSE NoVal,
                    websites |-> taskData.websites,
                    state |-> PENDING,
                    schedule |-> taskData.schedule,
                    startDate |-> IF IsSet(taskData.startDate)
                                  THEN Some(toISOString(Val(taskData.startDate)))
                                  ELSE NoVal,
                    createdAt |-> fresh,
                    updatedAt |-> now,
                    completedAt |-> NoVal,
                    nextOccurrenceAnchor |-> NoVal,
                    order |-> Len(all)]
    IN  IF errors # <<>> THEN [store |-> all, success |-> FALSE, error |-> errors]
        ELSE IF PendingCount(all) >= MAX_TASKS_PER_DAY THEN Failure(all, ErrLimit)
        ELSE IF ~saveOk THEN Failure(all, ErrSave)
        ELSE Ok(StorageAdd(all, newTask))

\* storageUpdates: { ...updates, startDate: ... }.  The key startDate is
\* always there; a Date becomes its ISO string, a string stays, anything
\* falsy stays what it was (undefined when the key was missing).
StorageUpdates(updates) ==
    [f \in (DOMAIN updates) \cup {"startDate"} |->
        IF f # "startDate" THEN updates[f]
        ELSE IF "startDate" \notin DOMAIN updates THEN NoVal
        ELSE IF ~IsSet(updates.startDate) THEN NoVal
        ELSE IF Val(updates.startDate).isDate
             THEN Some(toISOString(Val(updates.startDate).value))
             ELSE Some(Val(updates.startDate).value)]

\* updateTask refusing only a task in progress, as deleteTask does
updateTaskUnlessInProgress(all, taskId, updates, saveOk, now) ==
    LET k == FindIndex(all, taskId)
        task == all[k]
        hasName == "name" \in DOMAIN updates /\ updates.name # <<>>
        hasWebsites == "websites" \in DOMAIN updates
        errors == validateTask(
                    [name |-> IF hasName THEN updates.name ELSE task.name,
                     description |-> IF "description" \in DOMAIN updates
                                        /\ IsSet(updates.description)
                                     THEN updates.description ELSE task.description,
                     websites |-> IF hasWebsites THEN updates.websites
                                  ELSE task.websites,
                     schedule |-> NoVal,
                     startDate |-> NoVal], now)
    IN  IF k = 0 THEN Failure(all, ErrNotFound)
        ELSE IF task.state = IN_PROGRESS THEN Failure(all, ErrEditState)
        ELSE IF (hasName \/ hasWebsites) /\ errors # <<>>
             THEN [store |-> all, success |-> FALSE, error |-> errors]
        ELSE IF ~saveOk THEN Failure(all, ErrUpdate)
        ELSE Ok(StorageUpdate(all, taskId, StorageUpdates(updates), now))

\* updateTask(taskId, updates).  updates maps the keys present to their
\* values: name a string, description an optional string, websites an array,
\* schedule a schedule, startDate an optional Date or string,
\* nextOccurrenceAnchor an optional string.
updateTask(all, taskId, updates, saveOk, now) ==
    LET k == FindIndex(all, taskId)
        task == all[k]
        hasName == "name" \in DOMAIN updates /\ updates.name # <<>>
        hasWebsites == "websites" \in DOMAIN updates
        errors == validateTask(
                    [name |-> IF hasName THEN updates.name ELSE task.name,
                     description |-> IF "description" \in DOMAIN updates
                                        /\ IsSet(updates.description)
                                     THEN updates.description ELSE task.description,
                     websites |-> IF hasWebsites THEN updates.websites
                                  ELSE task.websites,
                     schedule |-> NoVal,
                     startDate |-> NoVal], now)
    IN  IF k = 0 THEN Failure(all, ErrNotFound)
        ELSE IF task.state = IN_PROGRESS \/ task.state = COMPLETED
             THEN Failure(all, ErrEditState)
        ELSE IF (hasName \/ hasWebsites) /\ errors # <<>>
             THEN [store |-> all, success |-> FALSE, error |-> errors]
        ELSE IF ~saveOk THEN Failure(all, ErrUpdate)
        ELSE Ok(StorageUpdate(all, taskId, StorageUpdates(updates), now))

\* deleteTask(taskId)
deleteTask(all, taskId, saveOk) ==
    LET k == FindIndex(all, taskId)
    IN  IF k = 0 THEN Failure(all, ErrNotFound)
        ELSE IF all[k].state = IN_PROGRESS THEN Failure(all, ErrDeleteState)
        ELSE IF ~saveOk THEN Failure(all, ErrDelete)
        ELSE Ok(StorageDelete(all, taskId))

\* What the browser answers to the tab calls of one operation:
\*   tabs     how many tabs chromeTabs.createMultiple returned
\*   grouped  chrome.tabs.group and chrome.tabGroups.update both resolved
\*   find     chromeTabGroups.findByTitle: "found", "none" or "throws"
\*   done     chromeTabGroups.remove / focusGroup resolved true
NoTabCalls == [tabs |-> 0, grouped |-> FALSE, find |-> "none", done |-> FALSE]

\* startTask writing the new state before it opens the tabs
startTaskWritesFirst(all, taskId, browser, saveOk, now) ==
    LET k == FindIndex(all, taskId)
    IN  IF k = 0 THEN Failure(all, ErrNotFound)
        ELSE IF all[k].state # PENDING THEN Failure(all, ErrNotPending)
        ELSE IF ~saveOk THEN Failure(all, ErrStateWrite)
        ELSE IF browser.tabs = 0
             THEN Failure(StorageUpdate(all, taskId, [state |-> IN_PROGRESS], now),
                          ErrTabs)
        ELSE Ok(StorageUpdate(all, taskId, [state |-> IN_PROGRESS], now))

\* startTask with the grouping outside its try/catch: a failed grouping fails
\* the operation
startTaskGroupingFatal(all, taskId, browser, saveOk, now) ==
    LET k == FindIndex(all, taskId)
    IN  IF k = 0 THEN Failure(all, ErrNotFound)
        ELSE IF all[k].state # PENDING THEN Failure(all, ErrNotPending)
        ELSE IF browser.tabs = 0 THEN Failure(all, ErrTabs)
        ELSE IF ~browser.grouped THEN Failure(all, ErrTabs)
        ELSE IF ~saveOk THEN Failure(all, ErrStateWrite)
        ELSE Ok(StorageUpdate(all, taskId, [state |-> IN_PROGRESS], now))

\* startTask(taskId)
startTask(all, taskId, browser, saveOk, now) ==
    LET k == FindIndex(all, taskId)
    IN  IF k = 0 THEN Failure(all, ErrNotFound)
        ELSE IF all[k].state # PENDING THEN Failure(all, ErrNotPending)
        ELSE IF browser.tabs = 0 THEN Failure(all, ErrTabs)
        \* grouping: try { ... } catch { continue without tab group }
        ELSE IF ~saveOk THEN Failure(all, ErrStateWrite)
        ELSE Ok(StorageUpdate(all, taskId, [state |-> IN_PROGRESS], now))

\* continueTask without the test of the state
continueTaskAnyState(all, taskId, browser) ==
    LET k == FindIndex(all, taskId)
    IN  IF k = 0 THEN Failure(all, ErrNotFound)
        ELSE Ok(all)

\* continueTask(taskId): every tab call sits in a try/catch; nothing is written
continueTask(all, taskId, browser) ==
    LET k == FindIndex(all, taskId)
    IN  IF k = 0 THEN Failure(all, ErrNotFound)
        ELSE IF all[k].state # IN_PROGRESS THEN Failure(all, ErrNotInProgress)
        ELSE Ok(all)

\* completeTask taking the next start date from getNextOccurrenceDate (the
\* next date after today) in place of getNextAfterBaseDate
completeTaskFromClock(all, taskId, browser, saveOk, now) ==
    LET k == FindIndex(all, taskId)
        task == all[k]
        nextBaseIso == getNextOccurrenceDate(task.startDate, task.schedule, now)
        updates ==
            IF task.schedule # NONE /\ IsSet(task.startDate)
            THEN IF IsSet(nextBaseIso)
                 THEN [startDate |-> nextBaseIso, state |-> PENDING,
                       completedAt |-> Some(now)]
                 ELSE [state |-> COMPLETED, completedAt |-> Some(now)]
            ELSE [state |-> COMPLETED, completedAt |-> Some(now)]
    IN  IF k = 0 THEN Failure(all, ErrNotFound)
        ELSE IF task.state # IN_PROGRESS THEN Failure(all, ErrNotInProgress)
        ELSE IF ~saveOk THEN Failure(all, ErrStateWrite)
        ELSE Ok(StorageUpdate(all, taskId, updates, now))

\* the patch completeTask hands to taskStorage.updateTask for the task it
\* read
completeUpdates(task, now) ==
    LET nextBaseIso == getNextAfterBaseDate(task.startDate, task.schedule)
    IN  IF task.schedule # NONE /\ IsSet(task.startDate)
        THEN IF IsSet(nextBaseIso)
             THEN [startDate |-> nextBaseIso, state |-> PENDING,
                   completedAt |-> Some(now)]
             ELSE [state |-> COMPLETED, completedAt |-> Some(now)]
        ELSE [state |-> COMPLETED, completedAt |-> Some(now)]

\* completeTask(taskId)
completeTask(all, taskId, browser, saveOk, now) ==
    LET k == FindIndex(all, taskId)
        task == all[k]
    IN  IF k = 0 THEN Failure(all, ErrNotFound)
        ELSE IF task.state # IN_PROGRESS THEN Failure(all, ErrNotInProgress)
        \* closing the tab group: try { ... } catch { continue }
        ELSE IF ~saveOk THEN Failure(all, ErrStateWrite)
        ELSE Ok(StorageUpdate(all, taskId, completeUpdates(task, now), now))

\* goToPage clamping from above only
goToPageUpTo(page, pages) == Min(page, pages)

\* goToPage(page)
goToPage(page, pages) == Max(1, Min(page, pages))

-----------------------------------------------------------------------------
(* components/TaskList.tsx: deleting from the confirmation modal           *)

isGeneratedOccurrence(id) == id.suffix # ""

\* the id buildNextOccurrenceTask gives the occurrence of task taskId
ProjectionId(taskId) == [uuid |-> taskId.uuid, suffix |-> "_next_occurrence"]

\* located.id.split('_')[0]: a random UUID has no "_" in it
ParentId(id) == [uuid |-> id.uuid, suffix |-> ""]

\* handleDeleteConfirm(deleteEntire) with taskToDelete = located, an entry of
\* [...tasks, ...futureTasks].  The value is the hook called ("" when the
\* handler calls none), the id it was called with and what it resolved to.
\* handleDeleteTask, the only place that sets taskToDelete, returns before it
\* does so when the entry is a generated occurrence; the branch of the
\* handler for a generated occurrence is modelled as it is written.
handleDeleteConfirm(all, located, deleteEntire, saveOk, now) ==
    LET parentId == IF isGeneratedOccurrence(located.id)
                    THEN ParentId(located.id) ELSE located.id
        nextBaseIso == getNextAfterBaseDate(located.startDate, located.schedule)
    IN  IF located.schedule = NONE
        THEN [called |-> "delete", id |-> located.id,
              out |-> deleteTask(all, located.id, saveOk)]
        ELSE IF deleteEntire
        THEN [called |-> "delete", id |-> parentId,
              out |-> deleteTask(all, parentId, saveOk)]
        ELSE IF isGeneratedOccurrence(located.id)
        THEN IF IsSet(located.startDate)
             THEN [called |-> "update", id |-> parentId,
                   out |-> updateTask(all, parentId,
                              [nextOccurrenceAnchor |-> located.startDate],
                              saveOk, now)]
             ELSE [called |-> "", id |-> parentId, out |-> Ok(all)]
        ELSE IF IsSet(located.startDate) /\ IsSet(nextBaseIso)
        THEN [called |-> "update", id |-> located.id,
              out |-> updateTask(all, located.id,
                         [startDate |-> Some([isDate |-> FALSE,
                                              value |-> Val(nextBaseIso)])],
                         saveOk, now)]
        ELSE [called |-> "", id |-> located.id, out |-> Ok(all)]

-----------------------------------------------------------------------------
(* components/TaskList.tsx, hooks/useCurrentTask.ts: the order and the     *)
(* page of the today set                                                   *)

\* detectCurrentTask: the task of the list named as the active tab group is
\* titled (title is NoVal when there is no group), the first of them
detectCurrentTask(list, title) ==
    IF ~IsSet(title) THEN NoVal
    ELSE IF \E k \in 1..Len(list) : list[k].name = Val(title)
    THEN Some(list[CHOOSE k \in 1..Len(list) :
                     /\ list[k].name = Val(title)
                     /\ \A j \in 1..(k - 1) : list[j].name # Val(title)].id)
    ELSE NoVal

\* the comparator without the test of the states
CompareByCreation(a, b, current) ==
    IF IsSet(current) /\ a.id = Val(current) THEN 0 - 1
    ELSE IF IsSet(current) /\ b.id = Val(current) THEN 1
    ELSE a.createdAt - b.createdAt

\* the comparator of tasks.sort((a, b) => ...): negative when a goes first
Compare(a, b, current) ==
    IF IsSet(current) /\ a.id = Val(current) THEN 0 - 1
    ELSE IF IsSet(current) /\ b.id = Val(current) THEN 1
    ELSE IF a.state = IN_PROGRESS /\ b.state = PENDING THEN 0 - 1
    ELSE IF a.state = PENDING /\ b.state = IN_PROGRESS THEN 1
    ELSE a.createdAt - b.createdAt

\* where a stable sort puts x in the sorted sequence: before the first
\* element it goes before
RECURSIVE InsertByCompare(_, _, _)
InsertByCompare(sorted, x, current) ==
    IF sorted = <<>> THEN <<x>>
    ELSE IF Compare(x, Head(sorted), current) < 0 THEN <<x>> \o sorted
         ELSE <<Head(sorted)>> \o InsertByCompare(Tail(sorted), x, current)

\* sortedTasks = tasks.sort(...): the array of the hook's state, sorted in
\* place
RECURSIVE sortedTasks(_, _)
sortedTasks(list, current) ==
    IF list = <<>> THEN <<>>
    ELSE InsertByCompare(sortedTasks(SubSeq(list, 1, Len(list) - 1), current),
                         list[Len(list)], current)

\* currentTasks = sortedTasks.slice((currentPage - 1) * 8, (currentPage - 1) * 8 + 8)
currentTasks(sorted, page) ==
    SubSeq(sorted, (page - 1) * 8 + 1, Min((page - 1) * 8 + 8, Len(sorted)))

-----------------------------------------------------------------------------
(* What the operations are given                                           *)

Str(n) == [k \in 1..n |-> "x"]

GoodUrl == [protocol |-> "https://", host |-> <<"a", "com">>]
BadUrl  == [protocol |-> "chrome://", host |-> <<"settings">>]

\* local days the first of which is the first day of a run
FirstDay == DayNum(2025, 1, 31)

\* the forms createTask is given: a task with no schedule and no date; each
\* recurring schedule from today; a recurring schedule with no date; and
\* forms the validation refuses (an empty name, a date in the past, a
\* browser-internal URL)
CreateInputs(now) ==
    [name : {Str(3)}, description : {NoVal}, websites : {<<GoodUrl>>},
     schedule : {NONE}, startDate : {NoVal}]
    \cup
    [name : {Str(3)}, description : {NoVal}, websites : {<<GoodUrl>>},
     schedule : Recurring, startDate : {Some(now)}]
    \cup
    { [name |-> Str(3), description |-> NoVal, websites |-> <<GoodUrl>>,
       schedule |-> DAILY, startDate |-> NoVal],
      [name |-> Str(0), description |-> NoVal, websites |-> <<GoodUrl>>,
       schedule |-> NONE, startDate |-> NoVal],
      [name |-> Str(3), description |-> NoVal, websites |-> <<GoodUrl>>,
       schedule |-> WEEKLY, startDate |-> Some(now - 1)],
      [name |-> Str(3), description |-> NoVal, websites |-> <<BadUrl>>,
       schedule |-> NONE, startDate |-> NoVal] }

\* the patches updateTask is given: the edit form's (handleEditTask sends all
\* five keys) and single keys, as the delete modal and other callers send
EditForm(name, schedule, startDate) ==
    [name |-> name, description |-> NoVal, websites |-> <<GoodUrl>>,
     schedule |-> schedule, startDate |-> startDate]

UpdateInputs(now) ==
    { EditForm(Str(4), DAILY, Some([isDate |-> TRUE, value |-> now + 1])),
      EditForm(Str(3), NONE, NoVal),
      EditForm(Str(3), WEEKLY, NoVal),
      [name |-> Str(4)],
      [name |-> Str(MAX_TASK_NAME_LENGTH + 1)],
      [websites |-> <<BadUrl>>] }

\* ids the operations are called with: those handed out so far and the next
IdsAsked == { PersistedId(n) : n \in 1..nextId }

\* answers to startTask's calls, to completeTask's and to continueTask's
OpenAnswers ==
    { [tabs |-> 0, grouped |-> FALSE, find |-> "none", done |-> FALSE],
      [tabs |-> 1, grouped |-> FALSE, find |-> "none", done |-> FALSE],
      [tabs |-> 1, grouped |-> TRUE, find |-> "none", done |-> FALSE] }
CloseAnswers ==
    { [tabs |-> 0, grouped |-> FALSE, find |-> "found", done |-> TRUE],
      [tabs |-> 0, grouped |-> FALSE, find |-> "found", done |-> FALSE],
      [tabs |-> 0, grouped |-> FALSE, find |-> "none", done |-> FALSE],
      [tabs |-> 0, grouped |-> FALSE, find |-> "throws", done |-> FALSE] }
FocusAnswers == OpenAnswers \cup CloseAnswers

-----------------------------------------------------------------------------
(* The lifecycle specification: one hook instance over one store           *)

NoResult == [op |-> "", id |-> PersistedId(0), success |-> TRUE, error |-> <<>>,
             tabs |-> 0, grouped |-> FALSE]

\* the value an operation resolved to, with what the browser had answered
\* to the calls that open and group tabs
Resolved(op, taskId, out, browser) ==
    [op |-> op, id |-> taskId, success |-> out.success, error |-> out.error,
     tabs |-> browser.tabs, grouped |-> browser.grouped]

\* a reload that keeps the occurrences it had generated before and adds the
\* new ones to them
ReloadedKeepingOccurrences(all) ==
    LET s == loadTasks(all, today, currentPage)
    IN  /\ tasks' = s.tasks
        /\ futureTasks' = s.futureTasks
                            \o SelectSeq(futureTasks, LAMBDA t : t.id.suffix # "")
        /\ currentPage' = s.currentPage
        /\ totalPages' = s.totalPages

\* await loadTasks() at the end of an operation that succeeded
Reloaded(all) ==
    LET s == loadTasks(all, today, currentPage)
    IN  /\ tasks' = s.tasks
        /\ futureTasks' = s.futureTasks
        /\ currentPage' = s.currentPage
        /\ totalPages' = s.totalPages

\* an operation that ran: the store it leaves, the value it resolves to, and
\* the reload when it succeeded
Ran(op, taskId, out, browser) ==
    /\ store' = out.store
    /\ result' = Resolved(op, taskId, out, browser)
    /\ IF out.success THEN Reloaded(out.store) ELSE UNCHANGED view

Init ==
    /\ store = <<>>
    /\ today = FirstDay
    /\ nextId = 1
    /\ result = NoResult
    /\ tasks = <<>>
    /\ futureTasks = <<>>
    /\ currentPage = 1
    /\ totalPages = 1
    /\ rolls = 0
    /\ rcIn = NoVal
    /\ rcOut = NoVal
    /\ currentTask = NoVal
    /\ calls = <<>>

Create(taskData, saveOk) ==
    LET out == createTask(store, taskData, saveOk, today, nextId)
    IN  /\ Ran("create", PersistedId(nextId), out, NoTabCalls)
        /\ nextId' = IF out.success THEN nextId + 1 ELSE nextId
        /\ UNCHANGED <<today, rolls, calc, currentTask, calls>>

Update(taskId, updates, saveOk) ==
    /\ Ran("update", taskId, updateTask(store, taskId, updates, saveOk, today),
           NoTabCalls)
    /\ UNCHANGED <<today, nextId, rolls, calc, currentTask, calls>>

Delete(taskId, saveOk) ==
    /\ Ran("delete", taskId, deleteTask(store, taskId, saveOk), NoTabCalls)
    /\ UNCHANGED <<today, nextId, rolls, calc, currentTask, calls>>

Start(taskId, browser, saveOk) ==
    /\ Ran("start", taskId, startTask(store, taskId, browser, saveOk, today), browser)
    /\ UNCHANGED <<today, nextId, rolls, calc, currentTask, calls>>

Continue(taskId, browser) ==
    /\ store' = continueTask(store, taskId, browser).store
    /\ result' = Resolved("continue", taskId, continueTask(store, taskId, browser),
                          browser)
    /\ UNCHANGED <<today, nextId, rolls, view, calc, currentTask, calls>>

\* whether completing taskId rolls a recurring task forward
Rolls(all, taskId) ==
    LET k == FindIndex(all, taskId)
    IN  k # 0 /\ all[k].state = IN_PROGRESS /\ all[k].schedule # NONE
        /\ IsSet(all[k].startDate)

Complete(taskId, browser, saveOk) ==
    LET out == completeTask(store, taskId, browser, saveOk, today)
    IN  /\ Rolls(store, taskId) => rolls < MaxRolls
        /\ Ran("complete", taskId, out, browser)
        /\ rolls' = IF Rolls(store, taskId) /\ out.success THEN rolls + 1 ELSE rolls
        /\ UNCHANGED <<today, nextId, calc, currentTask, calls>>

\* the delete modal, confirmed for one of the tasks on display
DeleteConfirm(located, deleteEntire, saveOk) ==
    LET did == handleDeleteConfirm(store, located, deleteEntire, saveOk, today)
    IN  /\ did.called # ""
        /\ did.called = "update" => rolls < MaxRolls
        /\ Ran(did.called, did.id, did.out, NoTabCalls)
        /\ rolls' = IF did.called = "update" /\ did.out.success
                    THEN rolls + 1 ELSE rolls
        /\ UNCHANGED <<today, nextId, calc, currentTask, calls>>

GoToPage(page) ==
    /\ currentPage' = goToPage(page, totalPages)
    /\ UNCHANGED <<store, today, nextId, result, tasks, futureTasks, totalPages,
                   rolls, calc, currentTask, calls>>

RefreshTasks ==
    /\ Reloaded(store)
    /\ UNCHANGED <<store, today, nextId, result, rolls, calc, currentTask, calls>>

\* midnight passes
AdvanceDay ==
    /\ today < FirstDay + MaxAdvance
    /\ today' = today + 1
    /\ UNCHANGED <<store, nextId, result, view, rolls, calc, currentTask, calls>>

\* every entry on display
AllOnDisplay ==
    { tasks[k] : k \in 1..Len(tasks) }
    \cup { futureTasks[k] : k \in 1..Len(futureTasks) }

\* the copies of persisted tasks on display (handleDeleteTask ignores the rest)
OnDisplay ==
    { t \in { tasks[k] : k \in 1..Len(tasks) }
            \cup { futureTasks[k] : k \in 1..Len(futureTasks) } :
        ~isGeneratedOccurrence(t.id) }

Next ==
    \/ \E taskData \in CreateInputs(today), saveOk \in BOOLEAN :
          Len(store) < MaxTasks /\ nextId <= MaxCreated /\ Create(taskData, saveOk)
    \/ \E taskId \in IdsAsked, updates \in UpdateInputs(today), saveOk \in BOOLEAN :
          Update(taskId, updates, saveOk)
    \/ \E taskId \in IdsAsked, saveOk \in BOOLEAN : Delete(taskId, saveOk)
    \/ \E taskId \in IdsAsked, browser \in OpenAnswers, saveOk \in BOOLEAN :
          Start(taskId, browser, saveOk)
    \/ \E taskId \in IdsAsked, browser \in FocusAnswers :
          Continue(taskId, browser)
    \/ \E taskId \in IdsAsked, browser \in CloseAnswers, saveOk \in BOOLEAN :
          Complete(taskId, browser, saveOk)
    \/ \E located \in OnDisplay, deleteEntire \in BOOLEAN, saveOk \in BOOLEAN :
          DeleteConfirm(located, deleteEntire, saveOk)
    \/ \E page \in (0 - 1)..MaxPageAsked : GoToPage(page)
    \/ RefreshTasks
    \/ AdvanceDay

Spec == Init /\ [][Next]_vars

-----------------------------------------------------------------------------
(* The task-limit specification: the same hook and store, filled with one  *)
(* kind of task up to the limit and past it; only the first ids are        *)
(* started, completed and deleted.                                         *)

LimitInput(now) ==
    [name |-> Str(3), description |-> NoVal, websites |-> <<GoodUrl>>,
     schedule |-> WEEKLY, startDate |-> Some(now)]

\* the forms given: the one above and one the validation refuses
LimitInputs(now) == { LimitInput(now), [LimitInput(now) EXCEPT !.name = Str(0)] }

\* the task started, completed and deleted: the first one created
LimitIds == { PersistedId(1) }

NextLimit ==
    \/ \E taskData \in LimitInputs(today), saveOk \in BOOLEAN :
          Len(store) < MaxLimitTasks /\ Create(taskData, saveOk)
    \/ \E taskId \in LimitIds, browser \in OpenAnswers, saveOk \in BOOLEAN :
          Start(taskId, browser, saveOk)
    \/ \E taskId \in LimitIds, browser \in CloseAnswers, saveOk \in BOOLEAN :
          Complete(taskId, browser, saveOk)
    \/ \E taskId \in LimitIds, saveOk \in BOOLEAN : Delete(taskId, saveOk)

SpecLimit == Init /\ [][NextLimit]_vars

-----------------------------------------------------------------------------
(* The recurrence-calculator specification: getNextOccurrenceDate and      *)
(* getNextAfterBaseDate applied to stored anchors under a clock             *)

CalcFirst == DayNum(2024, 12, 28)
LeapFirst == DayNum(2024, 1, 28)
ClockDays == CalcFirst..(CalcFirst + CalcSpan) \cup LeapFirst..(LeapFirst + LeapSpan)
AnchorDays == ClockDays

\* the calls made: a stored start date (the ISO string of a local midnight),
\* its schedule, and the day of the clock
CalcInputs ==
    { c \in [startDate : { toISOString(n) : n \in AnchorDays }, schedule : Recurring,
             now : ClockDays] :
        c.now - Val(stringToDate(Some(c.startDate))) <= MaxLag }

InitCalc ==
    /\ \E c \in CalcInputs :
          /\ today = c.now
          /\ rcIn = Some([startDate |-> c.startDate, schedule |-> c.schedule])
    /\ rcOut = NoVal
    /\ store = <<>>
    /\ nextId = 1
    /\ result = NoResult
    /\ tasks = <<>>
    /\ futureTasks = <<>>
    /\ currentPage = 1
    /\ totalPages = 1
    /\ rolls = 0
    /\ currentTask = NoVal
    /\ calls = <<>>

Calculate ==
    /\ rcOut = NoVal
    /\ rcOut' = Some([next  |-> getNextOccurrenceDate(Some(Val(rcIn).startDate),
                                                      Val(rcIn).schedule, today),
                      after |-> getNextAfterBaseDate(Some(Val(rcIn).startDate),
                                                     Val(rcIn).schedule)])
    /\ UNCHANGED <<store, today, nextId, result, view, rolls, rcIn, currentTask, calls>>

NextCalc == Calculate

SpecCalc == InitCalc /\ [][NextCalc]_vars

-----------------------------------------------------------------------------
(* The projection specification: the hook mounted over a store that        *)
(* earlier sessions have filled; it reloads, turns pages, deletes the last *)
(* task or, from the modal, the whole of a task on display, and midnight   *)
(* passes.                                                                 *)

\* a stored task, the k-th created, with the fields the projection reads
ProjTask(k, state, schedule, startDate, now) ==
    [id |-> PersistedId(k), name |-> Str(3), description |-> NoVal,
     websites |-> <<GoodUrl>>, state |-> state, schedule |-> schedule,
     startDate |-> startDate, createdAt |-> k, updatedAt |-> now,
     completedAt |-> IF state = COMPLETED THEN Some(now) ELSE NoVal,
     nextOccurrenceAnchor |-> NoVal, order |-> k - 1]

\* start dates found in a store: none, yesterday, today, tomorrow, in a week
ProjDates(now) ==
    {NoVal} \cup { Some(toISOString(now + d)) : d \in {0 - 1, 0, 1, 7} }

\* the kinds of task: a task not Completed has any schedule and date; a
\* Completed one has no schedule, or a schedule and no date (completeTask
\* sends every other task back to Pending)
ProjKinds(now) ==
    { c \in [state : TaskState, schedule : {NONE, DAILY, WEEKLY, MONTHLY},
             startDate : ProjDates(now)] :
        c.state = COMPLETED => (c.schedule = NONE \/ c.startDate = NoVal) }

\* the stores: up to MaxMixedTasks tasks of any kinds, and from there up to
\* MaxProjTasks weekly tasks that start today
ProjStores(now) ==
    UNION { { [k \in 1..n |-> ProjTask(k, c[k].state, c[k].schedule,
                                        c[k].startDate, now)] :
                c \in [1..n -> ProjKinds(now)] } : n \in 0..MaxMixedTasks }
    \cup
    { [k \in 1..n |-> ProjTask(k, PENDING, WEEKLY, Some(toISOString(now)), now)] :
        n \in (MaxMixedTasks + 1)..MaxProjTasks }

InitProj ==
    /\ today = FirstDay
    /\ store \in ProjStores(FirstDay)
    /\ nextId = Len(store) + 1
    /\ result = NoResult
    /\ tasks = <<>>
    /\ futureTasks = <<>>
    /\ currentPage = 1
    /\ totalPages = 1
    /\ rolls = 0
    /\ rcIn = NoVal
    /\ rcOut = NoVal
    /\ currentTask = NoVal
    /\ calls = <<>>

\* the id of the task stored last
LastIds == IF store = <<>> THEN {} ELSE { store[Len(store)].id }

NextProj ==
    \/ RefreshTasks
    \/ \E page \in (0 - 1)..MaxPageAsked : GoToPage(page)
    \/ \E taskId \in LastIds, saveOk \in BOOLEAN : Delete(taskId, saveOk)
    \/ \E located \in AllOnDisplay, saveOk \in BOOLEAN :
          Len(store) <= MaxMixedTasks /\ DeleteConfirm(located, TRUE, saveOk)
    \/ AdvanceDay

SpecProj == InitProj /\ [][NextProj]_vars

-----------------------------------------------------------------------------
(* The delete-modal specification: the hook mounted over a store of one    *)
(* Pending task; the task is started, edited and deleted, by its own id    *)
(* and by the id of its projected occurrence, and the delete modal is      *)
(* confirmed for any entry on display.                                     *)

\* the stores: a task with no schedule and no date, and a task of every
\* recurring schedule that starts today or in five days
ModalStores(now) ==
    { <<ProjTask(1, PENDING, NONE, NoVal, now)>> }
    \cup
    { <<ProjTask(1, PENDING, schedule, Some(toISOString(now + d)), now)>> :
        schedule \in Recurring, d \in {0, 5} }

InitModal ==
    /\ today = FirstDay
    /\ store \in ModalStores(FirstDay)
    /\ nextId = 2
    /\ result = NoResult
    /\ tasks = <<>>
    /\ futureTasks = <<>>
    /\ currentPage = 1
    /\ totalPages = 1
    /\ rolls = 0
    /\ rcIn = NoVal
    /\ rcOut = NoVal
    /\ currentTask = NoVal
    /\ calls = <<>>

\* the patches updateTask is given here: those of UpdateInputs, a description
\* alone, one character over the bound, and an anchor alone
ModalUpdates(now) ==
    UpdateInputs(now)
    \cup { [description |-> Some(Str(MAX_TASK_DESCRIPTION_LENGTH + 1))],
           [nextOccurrenceAnchor |-> Some(toISOString(now + 7))] }

\* ids the hook is called with: those of IdsAsked and of their occurrences
ModalIds == IdsAsked \cup { ProjectionId(taskId) : taskId \in IdsAsked }

NextModal ==
    \/ RefreshTasks
    \/ \E taskId \in IdsAsked, browser \in OpenAnswers, saveOk \in BOOLEAN :
          Start(taskId, browser, saveOk)
    \/ \E taskId \in ModalIds, updates \in ModalUpdates(today), saveOk \in BOOLEAN :
          Update(taskId, updates, saveOk)
    \/ \E taskId \in ModalIds, saveOk \in BOOLEAN : Delete(taskId, saveOk)
    \/ \E located \in AllOnDisplay, deleteEntire \in BOOLEAN, saveOk \in BOOLEAN :
          DeleteConfirm(located, deleteEntire, saveOk)

SpecModal == InitModal /\ [][NextModal]_vars

-----------------------------------------------------------------------------
(* The page specification: TaskList rendered over the today set of a store *)
(* of tasks without dates, Pending and InProgress; the active tab group    *)
(* changes, pages are turned, the list is reloaded.                        *)

\* the k-th task: a task of today with a name of its own
PageTask(k, state, now) ==
    [ProjTask(k, state, NONE, NoVal, now) EXCEPT !.name = Str(2 + k)]

\* the stores: up to MaxFewTasks tasks in any states, and MaxPageTasks tasks
\* of which the first two and the last two are in any states and the others
\* Pending
PageStores(now) ==
    UNION { { [k \in 1..n |-> PageTask(k, c[k], now)] :
                c \in { c \in [1..n -> {PENDING, IN_PROGRESS}] :
                          \A k \in 3..(n - 2) : c[k] = PENDING } } :
            n \in (0..MaxFewTasks) \cup {MaxPageTasks} }

\* the titles of the active tab group: none, the names of the tasks and a
\* name no task has
GroupTitles == {NoVal} \cup { Some(Str(2 + k)) : k \in 1..(MaxPageTasks + 1) }

InitPage ==
    /\ today = FirstDay
    /\ store \in PageStores(FirstDay)
    /\ nextId = Len(store) + 1
    /\ result = NoResult
    /\ tasks = <<>>
    /\ futureTasks = <<>>
    /\ currentPage = 1
    /\ totalPages = 1
    /\ rolls = 0
    /\ rcIn = NoVal
    /\ rcOut = NoVal
    /\ currentTask = NoVal
    /\ calls = <<>>

\* useCurrentTask's effect: the active tab group is looked up
DetectCurrent(title) ==
    /\ currentTask' = detectCurrentTask(tasks, title)
    /\ UNCHANGED <<store, today, nextId, result, view, rolls, calc, calls>>

\* TaskList renders: tasks.sort(...) reorders the array of the hook's state
Render ==
    /\ tasks' = sortedTasks(tasks, currentTask)
    /\ UNCHANGED <<store, today, nextId, result, futureTasks, currentPage,
                   totalPages, rolls, calc, currentTask, calls>>

NextPage ==
    \/ RefreshTasks
    \/ \E title \in GroupTitles : DetectCurrent(title)
    \/ Render
    \/ \E page \in (0 - 1)..MaxPageAsked : GoToPage(page)

SpecPage == InitPage /\ [][NextPage]_vars

-----------------------------------------------------------------------------
(* The concurrency specification: two calls of startTask or completeTask   *)
(* run at the same time over a store of two tasks (two pages of the        *)
(* extension open, or two handlers of one page).  A call is a chain of     *)
(* awaits; between two of them the other call may run.  The steps of a     *)
(* call: the hook reads the store and tests the task; taskStorage's        *)
(* updateTask reads the store again; it saves the array it read, with the  *)
(* patch merged into the task; the hook reloads and resolves.              *)

Procs == {1, 2}

RaceOps == {"start", "complete"}

\* the stores: two tasks, each Pending or InProgress, with no schedule or
\* daily or monthly from today
RaceStores(now) ==
    { [k \in 1..2 |-> ProjTask(k, c[k].state, c[k].schedule,
                               IF c[k].schedule = NONE THEN NoVal
                               ELSE Some(toISOString(now)), now)] :
        c \in [1..2 -> [state : {PENDING, IN_PROGRESS},
                        schedule : {NONE, DAILY, MONTHLY}]] }

RaceIds == { PersistedId(1), PersistedId(2) }

\* a call not made yet
NoCall == [pc |-> "idle", op |-> "", id |-> PersistedId(0), task |-> NoVal,
           updates |-> NoVal, snap |-> <<>>, success |-> FALSE]

\* what the browser answers to the tab calls of the two operations here
OneTab == [tabs |-> 1, grouped |-> TRUE, find |-> "found", done |-> TRUE]

InitRace ==
    /\ today = FirstDay
    /\ store \in RaceStores(FirstDay)
    /\ nextId = 3
    /\ result = NoResult
    /\ tasks = <<>>
    /\ futureTasks = <<>>
    /\ currentPage = 1
    /\ totalPages = 1
    /\ rolls = 0
    /\ rcIn = NoVal
    /\ rcOut = NoVal
    /\ currentTask = NoVal
    /\ calls = [p \in Procs |-> NoCall]

\* the call p is over, resolved to out
Returned(p, op, taskId, out) ==
    /\ calls' = [calls EXCEPT ![p] = [@ EXCEPT !.pc = "done", !.op = op,
                                              !.id = taskId,
                                              !.success = out.success]]
    /\ result' = Resolved(op, taskId, out, OneTab)

\* the hook's part before taskStorage.updateTask: getTasks, find, the tests
\* of the state, the tab calls, and the patch made from the task read
Begin(p, op, taskId) ==
    LET out == IF op = "start"
               THEN startTask(store, taskId, OneTab, TRUE, today)
               ELSE completeTask(store, taskId, OneTab, TRUE, today)
        task == store[FindIndex(store, taskId)]
    IN  /\ calls[p].pc = "idle"
        /\ IF out.success
           THEN /\ calls' = [calls EXCEPT ![p] =
                      [pc |-> "checked", op |-> op, id |-> taskId,
                       task |-> Some(task),
                       updates |-> Some(IF op = "start"
                                        THEN [state |-> IN_PROGRESS]
                                        ELSE completeUpdates(task, today)),
                       snap |-> <<>>, success |-> FALSE]]
                /\ UNCHANGED result
           ELSE Returned(p, op, taskId, out)
        /\ UNCHANGED <<store, today, nextId, view, rolls, calc, currentTask>>

\* taskStorage.updateTask: const tasks = await taskStorage.getTasks(), and
\* false when the task is not in it
StorageRead(p) ==
    /\ calls[p].pc = "checked"
    /\ IF FindIndex(store, calls[p].id) = 0
       THEN Returned(p, calls[p].op, calls[p].id, Failure(store, ErrStateWrite))
       ELSE /\ calls' = [calls EXCEPT ![p] = [@ EXCEPT !.pc = "read",
                                                        !.snap = store]]
            /\ UNCHANGED result
    /\ UNCHANGED <<store, today, nextId, view, rolls, calc, currentTask>>

\* a save that merges the patch into the array the store holds at the moment
WrittenArrayOfStore(current, snapshot, taskId, updates, now) ==
    StorageUpdate(current, taskId, updates, now)

\* a save that makes the patch of a completion anew from the task as the
\* array read earlier holds it
WrittenArrayFromStored(current, snapshot, taskId, updates, now) ==
    StorageUpdate(snapshot, taskId,
                  IF "completedAt" \in DOMAIN updates
                  THEN completeUpdates(snapshot[FindIndex(snapshot, taskId)], now)
                  ELSE updates, now)

\* tasks[taskIndex] = {...}; saveTasks(tasks): the array read earlier, with
\* the patch merged into the task, replaces what the store holds
WrittenArray(current, snapshot, taskId, updates, now) ==
    StorageUpdate(snapshot, taskId, updates, now)

StorageWrite(p, saveOk) ==
    /\ calls[p].pc = "read"
    /\ IF saveOk
       THEN /\ store' = WrittenArray(store, calls[p].snap, calls[p].id,
                                     Val(calls[p].updates), today)
            /\ calls' = [calls EXCEPT ![p] = [@ EXCEPT !.pc = "written"]]
            /\ UNCHANGED result
       ELSE /\ Returned(p, calls[p].op, calls[p].id, Failure(store, ErrStateWrite))
            /\ UNCHANGED store
    /\ UNCHANGED <<today, nextId, view, rolls, calc, currentTask>>

\* await loadTasks(); return { success: true }
Resolve(p) ==
    /\ calls[p].pc = "written"
    /\ Reloaded(store)
    /\ Returned(p, calls[p].op, calls[p].id, Ok(store))
    /\ UNCHANGED <<store, today, nextId, rolls, calc, currentTask>>

NextRace ==
    \/ \E p \in Procs, op \in RaceOps, taskId \in RaceIds : Begin(p, op, taskId)
    \/ \E p \in Procs : StorageRead(p)
    \/ \E p \in Procs, saveOk \in BOOLEAN : StorageWrite(p, saveOk)
    \/ \E p \in Procs : Resolve(p)

SpecRace == InitRace /\ [][NextRace]_vars

-----------------------------------------------------------------------------
(* Properties of the lifecycle specification                               *)

\* the stored task with this id (the id is in the store)
TaskOf(all, taskId) == all[FindIndex(all, taskId)]
Stored(all, taskId) == FindIndex(all, taskId) # 0

\* the date one step of the schedule after local day n, from the calendar:
\* the next day, the same weekday of the next week, or the day of the next
\* month that has the same day number, the last day of that month when the
\* month is too short to have it
OneStepAfter(n, schedule) ==
    CASE schedule = DAILY  -> n + 1
      [] schedule = WEEKLY -> n + 7
      [] schedule = MONTHLY ->
            CHOOSE d \in (n + 28)..(n + 31) :
                /\ YMD(d).month = (YMD(n).month % 12) + 1
                /\ \/ YMD(d).day = YMD(n).day
                   \/ /\ YMD(d).day < YMD(n).day
                      /\ YMD(d).day = DaysInMonth(YMD(d).year, YMD(d).month)

\* a task in progress with a recurring schedule and a start date
RecurringInProgress(all, taskId) ==
    /\ Stored(all, taskId)
    /\ TaskOf(all, taskId).state = IN_PROGRESS
    /\ TaskOf(all, taskId).schedule \in Recurring
    /\ IsSet(TaskOf(all, taskId).startDate)

\* taskId is back to Pending, one step later, with completedAt stamped now
RolledForward(taskId) ==
    /\ Stored(store', taskId)
    /\ TaskOf(store', taskId).state = PENDING
    /\ stringToDate(TaskOf(store', taskId).startDate)
         = Some(OneStepAfter(Val(stringToDate(TaskOf(store, taskId).startDate)),
                             TaskOf(store, taskId).schedule))
    /\ TaskOf(store', taskId).completedAt = Some(today)
    /\ TaskOf(store', taskId).schedule = TaskOf(store, taskId).schedule

\* C2 as stated: complete(id) on an InProgress task with a recurring schedule
\* and a start date sets the state back to Pending, moves startDate one step
\* of the schedule later and stamps completedAt; it never sets the task to
\* Completed.  (Stated of every call, whatever the store answers to the write.)
C2_CompleteRollsForward ==
    [][\A taskId \in IdsAsked, browser \in CloseAnswers, saveOk \in BOOLEAN :
          (Complete(taskId, browser, saveOk) /\ RecurringInProgress(store, taskId))
            => (result'.success /\ RolledForward(taskId))]_vars

\* C2 amended: complete(id) on an InProgress task with a recurring schedule
\* and a start date, when the store write succeeds, sets the state back to
\* Pending, moves startDate one step of the schedule later and stamps
\* completedAt; when the write fails it returns the state-write failure and
\* leaves the store as it was; in neither case is the task set to Completed.
C2_CompleteRollsForwardWhenWritten ==
    [][\A taskId \in IdsAsked, browser \in CloseAnswers, saveOk \in BOOLEAN :
          (Complete(taskId, browser, saveOk) /\ RecurringInProgress(store, taskId))
            => /\ saveOk => (result'.success /\ RolledForward(taskId))
               /\ ~saveOk => /\ ~result'.success
                             /\ result'.error = <<ErrStateWrite>>
                             /\ store' = store
               /\ TaskOf(store', taskId).state # COMPLETED]_vars

\* a recurring task has just been completed: it is Pending again, one month
\* after the first day (31 January: the last day of February)
C2_RolledTask ==
    /\ result.op = "complete" /\ result.success
    /\ Stored(store, result.id)
    /\ TaskOf(store, result.id).state = PENDING
    /\ TaskOf(store, result.id).schedule = MONTHLY
    /\ TaskOf(store, result.id).completedAt = Some(today)
    /\ stringToDate(TaskOf(store, result.id).startDate) = Some(DayNum(2025, 2, 28))

\* C3 as stated: a task whose state is Completed has completedAt set and no
\* schedule.
C3_CompletedHasNoSchedule ==
    \A k \in 1..Len(store) :
        store[k].state = COMPLETED
          => (IsSet(store[k].completedAt) /\ store[k].schedule = NONE)

\* C4 as stated: a task with a schedule has a start date.
C4_ScheduleHasStartDate ==
    \A k \in 1..Len(store) :
        store[k].schedule # NONE => IsSet(store[k].startDate)

\* C5: when create, update, delete, start, continue or complete returns a
\* failure, the stored tasks after the call are those before it.  (Every step
\* that is not one of these calls leaves both the store and the last result.)
C5_FailureLeavesStore ==
    [][~result'.success => store' = store]_vars

\* an operation on a stored task has failed at the store write
C5_FailedOperation ==
    /\ ~result.success
    /\ result.error = <<ErrStateWrite>>
    /\ Stored(store, result.id)

\* start moved a Pending task to InProgress; complete moved a task in
\* progress out of it
Started(taskId) ==
    /\ result'.success
    /\ TaskOf(store', taskId).state = IN_PROGRESS
Completed(taskId) ==
    /\ result'.success
    /\ Stored(store', taskId)
    /\ TaskOf(store', taskId).state \in {PENDING, COMPLETED}

C7_DeleteOnlyWhilePending ==
    [][\A taskId \in IdsAsked, saveOk \in BOOLEAN :
          (Delete(taskId, saveOk) /\ Stored(store, taskId))
            => IF TaskOf(store, taskId).state = PENDING
               THEN saveOk => ~Stored(store', taskId)
               ELSE /\ ~result'.success
                    /\ result'.error = <<ErrDeleteState>>
                    /\ store' = store]_vars

\* C8: update(id, ...) fails with the invalid-state error and changes nothing
\* when the task's state is InProgress or Completed, called directly or from
\* the delete modal.
C8_UpdateRefusedOnceStarted ==
    [][/\ \A taskId \in IdsAsked, updates \in UpdateInputs(today), saveOk \in BOOLEAN :
            (Update(taskId, updates, saveOk) /\ Stored(store, taskId)
               /\ TaskOf(store, taskId).state \in {IN_PROGRESS, COMPLETED})
              => /\ ~result'.success
                 /\ result'.error = <<ErrEditState>>
                 /\ store' = store
                 /\ view' = view
       /\ \A located \in OnDisplay, saveOk \in BOOLEAN :
            (DeleteConfirm(located, FALSE, saveOk) /\ result'.op = "update"
               /\ Stored(store, located.id)
               /\ TaskOf(store, located.id).state \in {IN_PROGRESS, COMPLETED})
              => /\ ~result'.success
                 /\ result'.error = <<ErrEditState>>
                 /\ store' = store
                 /\ view' = view
      ]_vars

\* an update of a Completed task has been refused
C8_RefusedUpdate ==
    /\ result.op = "update" /\ ~result.success
    /\ result.error = <<ErrEditState>>
    /\ Stored(store, result.id)
    /\ TaskOf(store, result.id).state = COMPLETED

-----------------------------------------------------------------------------
(* Properties of the task-limit specification                              *)

\* C1 as stated: the store never holds more than MAX_TASKS_PER_DAY tasks in
\* state Pending.
C1_PendingWithinLimit == PendingCount(store) <= MAX_TASKS_PER_DAY

\* what create leaves when it adds a task: the tasks there were, unchanged
\* and in place, and after them one new Pending task under an id not in use
AddsOnePending ==
    /\ Len(store') = Len(store) + 1
    /\ SubSeq(store', 1, Len(store)) = store
    /\ store'[Len(store')].state = PENDING
    /\ \A k \in 1..Len(store) : store[k].id # store'[Len(store')].id

\* C9 as stated: create fails with the limit-exceeded error and adds no task
\* whenever the number of Pending tasks in the store is at or above
\* MAX_TASKS_PER_DAY; with valid data and fewer Pending tasks it adds exactly
\* one new task in state Pending and changes no other stored task.
C9_CreateUpToLimit ==
    [][\A taskData \in LimitInputs(today), saveOk \in BOOLEAN :
          Create(taskData, saveOk)
            => IF PendingCount(store) >= MAX_TASKS_PER_DAY
               THEN /\ ~result'.success
                    /\ result'.error = <<ErrLimit>>
                    /\ store' = store
               ELSE taskData = LimitInput(today)
                      => (result'.success /\ AddsOnePending)]_vars

\* C9 amended: whenever the number of Pending tasks is at or above
\* MAX_TASKS_PER_DAY (exactly 12 included) create fails and adds no task, with
\* the limit-exceeded error when the data is valid and the validation's errors
\* when it is not; with valid data and fewer Pending tasks it adds exactly one
\* new task in state Pending and changes no other stored task when the store
\* write succeeds, and fails with "Failed to save task", adding nothing, when
\* the write fails.
C9_CreateUpToLimitWhenWritten ==
    [][\A taskData \in LimitInputs(today), saveOk \in BOOLEAN :
          Create(taskData, saveOk)
            => IF PendingCount(store) >= MAX_TASKS_PER_DAY
               THEN /\ ~result'.success
                    /\ store' = store
                    /\ result'.error = IF taskData = LimitInput(today)
                                       THEN <<ErrLimit>>
                                       ELSE <<"name: required">>
               ELSE taskData = LimitInput(today)
                      => IF saveOk THEN result'.success /\ AddsOnePending
                         ELSE /\ ~result'.success
                              /\ result'.error = <<ErrSave>>
                              /\ store' = store]_vars

\* a create has been refused with exactly MAX_TASKS_PER_DAY tasks Pending
C9_RefusedAtLimit ==
    /\ result.op = "create" /\ ~result.success
    /\ result.error = <<ErrLimit>>
    /\ PendingCount(store) = MAX_TASKS_PER_DAY

-----------------------------------------------------------------------------
(* Properties of the recurrence-calculator specification                   *)

\* C10: for every stored anchor and every recurring schedule,
\* getNextOccurrenceDate comes to a result, a date whose local day is after
\* today; each pass of its loop moves the date forward (one step after the
\* anchor is later than the anchor), which is why the loop ends.
C10_NextOccurrenceAfterToday ==
    IsSet(rcOut)
      => /\ IsSet(Val(rcOut).next)
         /\ Val(stringToDate(Val(rcOut).next)) > today
         /\ IsSet(Val(rcOut).after)
         /\ Val(stringToDate(Val(rcOut).after))
              > Val(stringToDate(Some(Val(rcIn).startDate)))

\* the calculator has answered for a monthly anchor more than a month old:
\* its loop ran more than once
C10_LoopedMonthly ==
    /\ IsSet(rcOut)
    /\ Val(rcIn).schedule = MONTHLY
    /\ Val(stringToDate(Some(Val(rcIn).startDate))) + 31 < today
    /\ Val(stringToDate(Val(rcOut).next)) > today

\* the local days of the call made and of its two answers
AnchorDay == Val(stringToDate(Some(Val(rcIn).startDate)))
AfterDay == Val(stringToDate(Val(rcOut).after))
NextDay == Val(stringToDate(Val(rcOut).next))

\* the date of the calendar month after that of local day n that has the day
\* number of n, or the last day of that month when it has no such day
SameDayNextMonth(n) ==
    LET y2 == IF YMD(n).month = 12 THEN YMD(n).year + 1 ELSE YMD(n).year
        m2 == IF YMD(n).month = 12 THEN 1 ELSE YMD(n).month + 1
    IN  [year |-> y2, month |-> m2, day |-> Min(YMD(n).day, DaysInMonth(y2, m2))]

\* C11: one monthly step, in getNextAfterBaseDate and in a pass of the loop of
\* getNextOccurrenceDate, takes a date with day number d to the next calendar
\* month at day min(d, days of that month), a date of the calendar:
\* 2025-01-31 gives 2025-02-28, and a December date gives January of the year
\* after.
C11_MonthlyStepClamps ==
    (IsSet(rcOut) /\ Val(rcIn).schedule = MONTHLY)
      => /\ YMD(AfterDay) = SameDayNextMonth(AnchorDay)
         /\ YMD(AfterDay).day \in 1..DaysInMonth(YMD(AfterDay).year, YMD(AfterDay).month)
         /\ AnchorDay = DayNum(2025, 1, 31) => AfterDay = DayNum(2025, 2, 28)
         /\ YMD(AnchorDay).month = 12
              => /\ YMD(AfterDay).month = 1
                 /\ YMD(AfterDay).year = YMD(AnchorDay).year + 1
         \* a loop that makes one pass makes this step
         /\ (AnchorDay <= today /\ AfterDay > today) => NextDay = AfterDay

\* the step has been made from day 31 into a month of 30 days
C11_ThirtyOneIntoThirty ==
    /\ IsSet(rcOut)
    /\ Val(rcIn).schedule = MONTHLY
    /\ AnchorDay = DayNum(2025, 3, 31)
    /\ AfterDay = DayNum(2025, 4, 30)

\* C12 as stated: the monthly steps from an anchor on day 31 land on the last
\* day of each month after it, so getNextOccurrenceDate answers the last day
\* of a month for such an anchor: 2025-03-31 for the anchor 2025-01-31 on
\* 2025-03-15.
C12_MonthlyChainKeepsLastDay ==
    (IsSet(rcOut) /\ Val(rcIn).schedule = MONTHLY /\ YMD(AnchorDay).day = 31)
      => /\ YMD(NextDay).day = DaysInMonth(YMD(NextDay).year, YMD(NextDay).month)
         /\ (AnchorDay = DayNum(2025, 1, 31) /\ today = DayNum(2025, 3, 15))
              => NextDay = DayNum(2025, 3, 31)

-----------------------------------------------------------------------------
(* Properties of the projection specification                              *)

\* the positions of a list
Positions(list) == 1..Len(list)

\* the local day a task is dated (the task has a start date)
DayOf(task) == Val(stringToDate(task.startDate))

\* a stored task that recurs, is not Completed and starts on local day now
RecursFrom(task, now) ==
    /\ task.state # COMPLETED
    /\ task.schedule \in Recurring
    /\ IsSet(task.startDate)
    /\ DayOf(task) = now

\* C13: after every projection run the future set holds exactly one projected
\* occurrence for each task that is not Completed, recurs and starts today,
\* dated one step of its schedule after today, while the task itself is in
\* the today set; and it holds a projected occurrence for no other task.
C13_OneProjectionPerTaskOfToday ==
    [][RefreshTasks =>
        /\ \A i \in Positions(store') :
              RecursFrom(store'[i], today') =>
                /\ Cardinality({ k \in Positions(futureTasks') :
                        futureTasks'[k].id = ProjectionId(store'[i].id) }) = 1
                /\ \A k \in Positions(futureTasks') :
                      futureTasks'[k].id = ProjectionId(store'[i].id) =>
                        /\ DayOf(futureTasks'[k])
                             = OneStepAfter(today', store'[i].schedule)
                        /\ DayOf(futureTasks'[k]) > today'
                /\ \E k \in Positions(tasks') : tasks'[k].id = store'[i].id
        /\ \A k \in Positions(futureTasks') :
              isGeneratedOccurrence(futureTasks'[k].id) =>
                \E i \in Positions(store') :
                    /\ futureTasks'[k].id = ProjectionId(store'[i].id)
                    /\ RecursFrom(store'[i], today')]_vars

\* a weekly task of today is in the today set and its projection, a week
\* later, is in the future set, next to a recurring task of a later day that
\* has none
C13_WeeklyProjected ==
    /\ \E i \in Positions(store), k \in Positions(futureTasks) :
          /\ RecursFrom(store[i], today) /\ store[i].schedule = WEEKLY
          /\ futureTasks[k].id = ProjectionId(store[i].id)
          /\ DayOf(futureTasks[k]) = today + 7
          /\ \E j \in Positions(tasks) : tasks[j].id = store[i].id
    /\ \E i \in Positions(store), k \in Positions(futureTasks) :
          /\ store[i].schedule \in Recurring
          /\ futureTasks[k].id = store[i].id
          /\ \A j \in Positions(futureTasks) :
                futureTasks[j].id # ProjectionId(store[i].id)

\* no two entries of the list carry the same id
DistinctIds(list) ==
    \A j, k \in Positions(list) : list[j].id = list[k].id => j = k

\* the two sets on display are those a projection run over the present store
\* and the present day leaves
ProjectedAlready ==
    /\ tasks = loadTasks(store, today, currentPage).tasks
    /\ futureTasks = loadTasks(store, today, currentPage).futureTasks

DueTasks(all, now) ==
    { all[i] : i \in { i \in Positions(all) :
        /\ all[i].state # COMPLETED
        /\ ~IsSet(all[i].startDate) \/ DayOf(all[i]) = now } }

\* the stored tasks that are not Completed and start after local day now
LaterTasks(all, now) ==
    { all[i] : i \in { i \in Positions(all) :
        /\ all[i].state # COMPLETED
        /\ IsSet(all[i].startDate)
        /\ DayOf(all[i]) > now } }

\* the entries of a list, and those of them that are persisted tasks
Entries(list) == { list[k] : k \in Positions(list) }
PersistedEntries(list) == { t \in Entries(list) : ~isGeneratedOccurrence(t.id) }

\* C18: after every projection run the today set is exactly the stored tasks
\* that are not Completed and have no start date or start today, the
\* persisted part of the future set is exactly the stored tasks that are not
\* Completed and start after today, and no entry of either set is, or is
\* projected from, a Completed task.
C18_SetsPartitionActiveTasks ==
    [][RefreshTasks =>
        /\ Entries(tasks') = DueTasks(store', today')
        /\ PersistedEntries(futureTasks') = LaterTasks(store', today')
        /\ \A t \in Entries(tasks') \cup Entries(futureTasks'),
              i \in Positions(store') :
                store'[i].state = COMPLETED => t.id.uuid # store'[i].id.uuid]_vars

\* a Completed task and a task of a later day are stored; the later one is in
\* the future set and the today set is empty
C18_CompletedLeftOut ==
    /\ \E i, j \in Positions(store) :
          /\ store[i].state = COMPLETED
          /\ store[j] \in LaterTasks(store, today)
          /\ store[j] \in Entries(futureTasks)
    /\ tasks = <<>>

\* the pages asked for
PagesAsked == (0 - 1)..MaxPageAsked

\* page p brought into 1..pages
ClampedPage(p, pages) ==
    IF p < 1 THEN 1 ELSE IF p > pages THEN pages ELSE p

\* C20: after every reload totalPages is the least number of pages of
\* VISIBLE_TASKS = 8 entries that hold the today set, and at least 1; the
\* current page is in 1..totalPages after every step; goToPage(p) can always
\* be taken and leaves the current page at p clamped into 1..totalPages.
C20_PageWithinPages ==
    /\ [](\A p \in PagesAsked : ENABLED GoToPage(p))
    /\ [][/\ RefreshTasks =>
                /\ totalPages' >= 1
                /\ totalPages' * 8 >= Len(tasks')
                /\ totalPages' > 1 => (totalPages' - 1) * 8 < Len(tasks')
          /\ currentPage' \in 1..totalPages'
          /\ \A p \in PagesAsked :
                GoToPage(p) => currentPage' = ClampedPage(p, totalPages)]_vars

\* the last of three pages is on display
C20_LastOfThreePages ==
    /\ Len(tasks) = 2 * VISIBLE_TASKS + 1
    /\ totalPages = 3
    /\ currentPage = 3

-----------------------------------------------------------------------------
(* Properties of the delete-modal specification                            *)

\* located is the projected occurrence, on display, of a stored Pending task
ProjectedOnDisplay(located) ==
    /\ located \in AllOnDisplay
    /\ isGeneratedOccurrence(located.id)
    /\ Stored(store, ParentId(located.id))
    /\ TaskOf(store, ParentId(located.id)).state = PENDING

\* the entries of the future set projected from task taskId
ProjectionsOf(list, taskId) ==
    { t \in Entries(list) : t.id = ProjectionId(taskId) }

\* C14: when the occurrence dated today + 7 days projected from a weekly task
\* of today is deleted as "only this occurrence" and the store is written,
\* the parent's nextOccurrenceAnchor is today + 7 days and the projection run
\* that follows yields for it an occurrence dated today + 14 days and none
\* dated today + 7 days.
C14_SkippedOccurrenceMovesOn ==
    [][\A located \in AllOnDisplay :
        ( /\ ProjectedOnDisplay(located)
          /\ located.schedule = WEEKLY
          /\ DayOf(located) = today + 7
          /\ RecursFrom(TaskOf(store, ParentId(located.id)), today)
          /\ DeleteConfirm(located, FALSE, TRUE) )
        => /\ Stored(store', ParentId(located.id))
           /\ TaskOf(store', ParentId(located.id)).nextOccurrenceAnchor
                = Some(toISOString(today + 7))
           /\ \E t \in ProjectionsOf(futureTasks', ParentId(located.id)) :
                 DayOf(t) = today' + 14
           /\ \A t \in ProjectionsOf(futureTasks', ParentId(located.id)) :
                 DayOf(t) # today' + 7]_vars

LaterBaseOnDisplay(located) ==
    /\ located \in AllOnDisplay
    /\ ~isGeneratedOccurrence(located.id)
    /\ Stored(store, located.id)
    /\ TaskOf(store, located.id) \in LaterTasks(store, today)
    /\ TaskOf(store, located.id).schedule \in Recurring

\* the stored task taskId starts one step of its schedule later than it did,
\* in the state it was in
BaseAdvanced(taskId) ==
    /\ Stored(store', taskId)
    /\ IsSet(TaskOf(store', taskId).startDate)
    /\ DayOf(TaskOf(store', taskId))
         = OneStepAfter(DayOf(TaskOf(store, taskId)), TaskOf(store, taskId).schedule)
    /\ TaskOf(store', taskId).state = TaskOf(store, taskId).state
    /\ TaskOf(store', taskId).schedule = TaskOf(store, taskId).schedule

\* C16 as stated: deleting "only this occurrence" of a persisted recurring
\* task that starts after today moves its start date one step of its
\* schedule later, keeps it stored and leaves its state as it was.
C16_BaseAdvancesOneStep ==
    [][\A located \in AllOnDisplay, saveOk \in BOOLEAN :
        (LaterBaseOnDisplay(located) /\ DeleteConfirm(located, FALSE, saveOk))
        => BaseAdvanced(located.id)]_vars

\* C16, for a Pending task when the store is written: deleting "only this
\* occurrence" of a persisted Pending recurring task that starts after today
\* moves its start date one step of its schedule later, keeps it stored and
\* leaves it Pending.
C16_PendingBaseAdvancesOneStep ==
    [][\A located \in AllOnDisplay :
        ( /\ LaterBaseOnDisplay(located)
          /\ TaskOf(store, located.id).state = PENDING
          /\ DeleteConfirm(located, FALSE, TRUE) )
        => BaseAdvanced(located.id)]_vars

\* the daily task that started in five days starts in six, Pending, after an
\* update that succeeded
C16_DailyMovedToSixthDay ==
    /\ result.op = "update" /\ result.success
    /\ \E i \in Positions(store) :
          /\ store[i].schedule = DAILY
          /\ store[i].state = PENDING
          /\ IsSet(store[i].startDate)
          /\ DayOf(store[i]) = today + 6
          /\ store[i].name = Str(3)

\* C19: no stored task carries the id of a projected occurrence, and
\* updateTask and deleteTask called with the id of a projected occurrence
\* fail and leave the store as it was.
C19_ProjectionNeverStored ==
    /\ [](\A i \in Positions(store) :
            /\ ~isGeneratedOccurrence(store[i].id)
            /\ \A j \in Positions(store) : store[i].id # ProjectionId(store[j].id))
    /\ [][\A taskId \in ModalIds :
            isGeneratedOccurrence(taskId) =>
              /\ \A updates \in ModalUpdates(today), saveOk \in BOOLEAN :
                    Update(taskId, updates, saveOk)
                      => (~result'.success /\ store' = store)
              /\ \A saveOk \in BOOLEAN :
                    Delete(taskId, saveOk)
                      => (~result'.success /\ store' = store)]_vars

\* deleteTask called with the id of the occurrence on display of a stored
\* task answered that there is no such task
C19_ProjectionRefused ==
    /\ result.op = "delete"
    /\ isGeneratedOccurrence(result.id)
    /\ ~result.success
    /\ result.error = <<ErrNotFound>>
    /\ Stored(store, ParentId(result.id))
    /\ \E t \in Entries(futureTasks) : t.id = result.id

-----------------------------------------------------------------------------
(* Further properties of the lifecycle specification                       *)

\* C22: continueTask fails for an id that is not stored and for a task that
\* is not InProgress; whatever it resolves to and whatever the browser
\* answers, the store is left as it was, so the task continued is InProgress
\* afterwards.
C22_ContinueLeavesStore ==
    [][\A taskId \in IdsAsked, browser \in FocusAnswers :
        Continue(taskId, browser) =>
          /\ store' = store
          /\ ( ~Stored(store, taskId)
               \/ TaskOf(store, taskId).state # IN_PROGRESS ) => ~result'.success
          /\ result'.success =>
                /\ Stored(store', taskId)
                /\ TaskOf(store', taskId).state = IN_PROGRESS]_vars

\* continueTask succeeded, for a task in progress, with no tab group found
\* and no tab opened
C22_ContinuedWithoutTabs ==
    /\ result.op = "continue"
    /\ result.success
    /\ result.tabs = 0
    /\ Stored(store, result.id)
    /\ TaskOf(store, result.id).state = IN_PROGRESS

-----------------------------------------------------------------------------
(* Properties of updateTask, under the delete-modal specification          *)

\* the name, description and websites of a task after a patch is merged in
MergedText(task, updates) ==
    [name        |-> Pick(task, updates, "name"),
     description |-> Pick(task, updates, "description"),
     websites    |-> Pick(task, updates, "websites")]

\* the patch changes the name, the description or the websites of the task
TouchesText(task, updates) ==
    \E f \in {"name", "description", "websites"} :
        f \in DOMAIN updates /\ updates[f] # task[f]

\* the merged name, description and websites pass no validation together
InvalidText(text) ==
    \/ validateTaskName(text.name) # <<>>
    \/ IsSet(text.description) /\ validateTaskDescription(Val(text.description)) # <<>>
    \/ validateTaskWebsites(text.websites) # <<>>

\* C23: updateTask on a Pending task, given a patch that changes the name,
\* the description or the websites to a merged task that is invalid, fails
\* and leaves the store as it was.
C23_InvalidPatchRefused ==
    [][\A taskId \in ModalIds, updates \in ModalUpdates(today), saveOk \in BOOLEAN :
        ( /\ Stored(store, taskId)
          /\ TaskOf(store, taskId).state = PENDING
          /\ TouchesText(TaskOf(store, taskId), updates)
          /\ InvalidText(MergedText(TaskOf(store, taskId), updates))
          /\ Update(taskId, updates, saveOk) )
        => (~result'.success /\ store' = store)]_vars

\* C26: an updateTask that succeeds leaves every field of the task that the
\* patch does not name as it was, updatedAt apart (the start date, the state
\* and the schedule among them), and leaves every other stored task as it
\* was.
C26_PatchChangesNamedFieldsOnly ==
    [][\A taskId \in ModalIds, updates \in ModalUpdates(today), saveOk \in BOOLEAN :
        ( /\ Stored(store, taskId)
          /\ Update(taskId, updates, saveOk)
          /\ result'.success )
        => /\ Len(store') = Len(store)
           /\ \A i \in Positions(store) :
                 IF store[i].id = taskId
                 THEN \A f \in (TaskFields \ DOMAIN updates) \ {"updatedAt"} :
                         store'[i][f] = store[i][f]
                 ELSE store'[i] = store[i]]_vars

-----------------------------------------------------------------------------
(* Further properties of the projection specification                      *)

\* located is on display and is, or is projected from, a stored Pending
\* recurring task
OfPendingRecurring(located) ==
    /\ located \in AllOnDisplay
    /\ Stored(store, ParentId(located.id))
    /\ TaskOf(store, ParentId(located.id)).state = PENDING
    /\ TaskOf(store, ParentId(located.id)).schedule \in Recurring

\* the record taskId is gone from the store, nothing of it is on display and
\* the other records are as they were
RemovedOutright(taskId) ==
    /\ store' = SelectSeq(store, LAMBDA t : t.id # taskId)
    /\ ~Stored(store', taskId)
    /\ \A t \in Entries(tasks') \cup Entries(futureTasks') : t.id.uuid # taskId.uuid

\* C24 as stated: "delete the entire task" chosen for a Pending recurring
\* task removes its record; the projection run that follows holds neither
\* the task nor an occurrence projected from it; the other stored tasks are
\* as they were.
C24_EntireTaskRemoved ==
    [][\A located \in AllOnDisplay, saveOk \in BOOLEAN :
        (OfPendingRecurring(located) /\ DeleteConfirm(located, TRUE, saveOk))
        => RemovedOutright(ParentId(located.id))]_vars

\* C24, when the store is written: "delete the entire task" chosen for a
\* Pending recurring task removes its record; the projection run that follows
\* holds neither the task nor an occurrence projected from it; the other
\* stored tasks are as they were.
C24_EntireTaskRemovedWhenWritten ==
    [][\A located \in AllOnDisplay :
        (OfPendingRecurring(located) /\ DeleteConfirm(located, TRUE, TRUE))
        => RemovedOutright(ParentId(located.id))]_vars

\* the first of two stored tasks was deleted; the second, a recurring task of
\* today, is stored and on display with its occurrence
C24_FirstOfTwoDeleted ==
    /\ result.op = "delete" /\ result.success
    /\ result.id = PersistedId(1)
    /\ Len(store) = 1
    /\ store[1].id = PersistedId(2)
    /\ RecursFrom(store[1], today)
    /\ store[1] \in Entries(tasks)
    /\ ProjectionsOf(futureTasks, store[1].id) # {}
    /\ \A t \in AllOnDisplay : t.id.uuid # 1

-----------------------------------------------------------------------------
(* Further properties of the recurrence-calculator specification           *)

\* the days in one step of a daily or weekly schedule
StepDays(schedule) == IF schedule = DAILY THEN 1 ELSE 7

\* C25: for a daily or weekly schedule getNextOccurrenceDate answers the
\* anchor plus k steps for the least k >= 0 that gives a day after today: the
\* anchor itself when it is after today, one step later when it is today,
\* and the first occurrence after today however many were missed.
C25_LeastStepAfterToday ==
    (IsSet(rcOut) /\ Val(rcIn).schedule \in {DAILY, WEEKLY}) =>
        /\ NextDay > today
        /\ NextDay >= AnchorDay
        /\ (NextDay - AnchorDay) % StepDays(Val(rcIn).schedule) = 0
        /\ NextDay > AnchorDay => NextDay - StepDays(Val(rcIn).schedule) <= today
        /\ AnchorDay > today => NextDay = AnchorDay
        /\ AnchorDay = today => NextDay = AnchorDay + StepDays(Val(rcIn).schedule)

\* a weekly anchor of last year, nine occurrences missed, answered with the
\* tenth after it
C25_WeeklyFromLastYear ==
    /\ IsSet(rcOut)
    /\ Val(rcIn).schedule = WEEKLY
    /\ YMD(AnchorDay).year = 2024
    /\ YMD(today).year = 2025
    /\ NextDay = AnchorDay + 70
    /\ today >= AnchorDay + 63

-----------------------------------------------------------------------------
(* Properties of the two sets on display                                   *)

\* C27: after every projection run each stored task that is not Completed is
\* in exactly one of the today set and the persisted part of the future set,
\* whatever the day has become since the task was stored.
C27_ActiveTaskOnDisplay ==
    [][RefreshTasks =>
        \A i \in Positions(store') :
            store'[i].state # COMPLETED =>
                (store'[i] \in Entries(tasks'))
                    # (store'[i] \in PersistedEntries(futureTasks'))]_vars

\* C30: after every projection run the future set, persisted tasks and
\* projected occurrences together, is in ascending order of date.
C30_FutureSetSorted ==
    [][RefreshTasks =>
        \A k \in 1..(Len(futureTasks') - 1) :
            /\ IsSet(futureTasks'[k].startDate)
            /\ IsSet(futureTasks'[k + 1].startDate)
            /\ Val(futureTasks'[k].startDate) <= Val(futureTasks'[k + 1].startDate)]_vars

\* the occurrence projected from the second task comes before the first
\* task, which is persisted and starts later
C30_ProjectionBeforePersisted ==
    /\ Len(futureTasks) = 2
    /\ futureTasks[1].id = ProjectionId(PersistedId(2))
    /\ futureTasks[2].id = PersistedId(1)
    /\ DayOf(futureTasks[1]) < DayOf(futureTasks[2])

-----------------------------------------------------------------------------
(* Properties of the page specification                                    *)

\* every InProgress task of the list is before every Pending one and tasks
\* in the same state are in ascending order of createdAt
ByStateThenCreation(list) ==
    \A i, j \in Positions(list) :
        i < j =>
            /\ ~(list[i].state = PENDING /\ list[j].state = IN_PROGRESS)
            /\ list[i].state = list[j].state => list[i].createdAt <= list[j].createdAt

\* the list holds the same tasks as before, each once
SameTasks(before, after) ==
    /\ Len(after) = Len(before)
    /\ Entries(after) = Entries(before)

\* every task of the list is on exactly one of the pages 1..pages
OnOnePage(list, pages) ==
    \A k \in Positions(list) :
        Cardinality({ p \in 1..pages :
            list[k] \in Entries(currentTasks(list, p)) }) = 1

\* the list without the task detected as current
WithoutCurrent(list) ==
    SelectSeq(list, LAMBDA t : ~(IsSet(currentTask) /\ t.id = Val(currentTask)))

\* C29 as stated: whatever task is detected as current, the list rendered
\* has every InProgress task before every Pending one and equal states in
\* ascending order of createdAt, and every task is on exactly one page of 8.
C29_InProgressFirst ==
    [][Render =>
        /\ SameTasks(tasks, tasks')
        /\ ByStateThenCreation(tasks')
        /\ OnOnePage(tasks', totalPages')]_vars

\* C29, with the current task first: the list rendered has the task detected
\* as current, when it is in the today set, in the first place; the other
\* tasks follow with every InProgress one before every Pending one and equal
\* states in ascending order of createdAt; every task is on exactly one page
\* of 8.
C29_CurrentThenInProgressFirst ==
    [][Render =>
        /\ SameTasks(tasks, tasks')
        /\ (IsSet(currentTask) /\ \E t \in Entries(tasks) : t.id = Val(currentTask))
              => tasks'[1].id = Val(currentTask)
        /\ ByStateThenCreation(WithoutCurrent(tasks'))
        /\ OnOnePage(tasks', totalPages')]_vars

\* nine tasks over two pages: the current one, Pending, is first, the task in
\* progress created last comes next and the task created first is behind it
C29_CurrentPendingFirst ==
    /\ Len(tasks) = MaxPageTasks
    /\ totalPages = 2
    /\ IsSet(currentTask)
    /\ tasks[1].id = Val(currentTask)
    /\ tasks[1].state = PENDING
    /\ tasks[2].state = IN_PROGRESS
    /\ tasks[2].createdAt = MaxPageTasks
    /\ tasks[3].createdAt = 1
    /\ ByStateThenCreation(WithoutCurrent(tasks))

-----------------------------------------------------------------------------
(* Properties of the concurrency specification                             *)

\* the store of call q has been written
Wrote(q) ==
    \/ calls[q].pc = "written"
    \/ calls[q].pc = "done" /\ calls[q].success

\* the task of call q is held in the array as the patch of q left it
Reflects(all, q) ==
    /\ Stored(all, calls[q].id)
    /\ \A f \in DOMAIN Val(calls[q].updates) :
          TaskOf(all, calls[q].id)[f] = Val(calls[q].updates)[f]

\* C21: when a call writes the store after a call on another task has
\* written it, the store holds the change of the later call, and holds the
\* change of the earlier one only if the later call had read the store after
\* it was made; so with both reads made before either write, both calls
\* succeed and the change of the first to write is lost.
C21_LaterWriteKeepsWhatItRead ==
    [][\A p, q \in Procs :
        ( /\ p # q
          /\ Wrote(q)
          /\ calls[q].id # calls[p].id
          /\ StorageWrite(p, TRUE) )
        => /\ Reflects(store', p)
           /\ Reflects(store', q) <=> Reflects(calls[p].snap, q)]_vars

\* both calls, on different tasks, have resolved to success and the store
\* holds the change of one of them only
C21_LostUpdate ==
    /\ \A p \in Procs : calls[p].pc = "done" /\ calls[p].success
    /\ calls[1].id # calls[2].id
    /\ \E p, q \in Procs : p # q /\ Reflects(store, p) /\ ~Reflects(store, q)

\* both calls are over and were completeTask for one task, which the first
\* of them found InProgress, recurring and with a start date
TwoCompletionsOver ==
    /\ \A p \in Procs : calls[p].pc = "done" /\ calls[p].op = "complete"
    /\ calls[1].id = calls[2].id
    /\ \E p \in Procs :
          /\ IsSet(calls[p].task)
          /\ Val(calls[p].task).schedule \in Recurring
          /\ IsSet(Val(calls[p].task).startDate)

\* the task of the two calls is Pending and starts one step of its schedule
\* after the day it started on when a call read it
OneStepLater ==
    /\ Stored(store, calls[1].id)
    /\ TaskOf(store, calls[1].id).state = PENDING
    /\ IsSet(TaskOf(store, calls[1].id).startDate)
    /\ \A p \in Procs :
          IsSet(calls[p].task) =>
              DayOf(TaskOf(store, calls[1].id))
                = OneStepAfter(DayOf(Val(calls[p].task)), Val(calls[p].task).schedule)

\* a write of a completion, made while the other call is not begun or is a
\* completion of the same task, leaves the other records as they were
CompletionWritesOneRecord ==
    \A p, q \in Procs, saveOk \in BOOLEAN :
        ( /\ p # q
          /\ calls[p].op = "complete"
          /\ calls[q].pc = "idle"
             \/ (calls[q].op = "complete" /\ calls[q].id = calls[p].id)
          /\ StorageWrite(p, saveOk) )
        => \A i \in Positions(store) :
              store[i].id # calls[p].id => store'[i] = store[i]

\* C28: two completeTask calls for one InProgress recurring task, their store
\* reads and writes interleaved in any order and a write of the store made,
\* leave the task Pending and starting exactly one step of its schedule after
\* the day it started on before the calls, never two steps, and change no
\* other record.
C28_TwoCompletionsOneStep ==
    /\ []((TwoCompletionsOver /\ \E p \in Procs : calls[p].success) => OneStepLater)
    /\ [][CompletionWritesOneRecord]_vars

\* both completions read the task before either wrote, both resolved to
\* success, and the task is one step later
C28_BothCompletionsSucceeded ==
    /\ TwoCompletionsOver
    /\ \A p \in Procs : calls[p].success
    /\ OneStepLater

=============================================================================
